---- MODULE Spec2Model ----
(***************************************************************************)
(* Chat-session controller of the control UI: ui/controllers/chat.ts       *)
(* (local cache store, attachment lifecycle, history merge, run state      *)
(* machine) and ui/app-chat.ts (send queue, capture, abort).               *)
(*                                                                         *)
(* JavaScript runs one macrotask at a time.  An action of this model is    *)
(* one macrotask together with the promise continuations it makes ready:   *)
(* a handler runs until every call chain it started is suspended on real   *)
(* I/O (a gateway request awaiting its response).  The requests in flight  *)
(* are the variables tasks, saves, loads and aborts; one action per        *)
(* response resumes the chain that awaited it.                             *)
(*                                                                         *)
(* Texts are strings of a small vocabulary; trim() and length are the      *)
(* tables Trim and TextLen over that vocabulary.  Attachment ids, run ids, *)
(* queue-item ids and note ids are generateUUID()/backend values, modelled *)
(* as fresh positive integers; 0 stands for null/undefined/"".             *)
(*                                                                         *)
(* Left out, as no operation modelled here reads them: chatThinkingLevel,  *)
(* chatRecordError and the recorder, refreshSessionsAfterChat and the      *)
(* reset commands and mime types.  Transcripts and file names do not      *)
(* influence the control flow; the texts built from them are modelled as   *)
(* functions of a send (SpecPrompt).  Every data URL parses                *)
(* (dataUrlToBase64 succeeds).  localStorage works and starts without an   *)
(* item in every specification but SpecStorage.                            *)
(* flushChatQueueForEvent is called by the gateway event handler of the    *)
(* application, which is modelled by ChatEventAndFlush; the specifications *)
(* of the send path also call it at any time.                              *)
(***************************************************************************)
EXTENDS Integers, Sequences, FiniteSets

VARIABLES
  sessionKey,           \* ChatState.sessionKey
  connected,            \* ChatState.connected (client is set)
  chatMessage,          \* ChatState.chatMessage, the draft
  chatAttachments,      \* ChatState.chatAttachments: sequence of object refs
  chatMessages,         \* ChatState.chatMessages
  chatQueue,            \* ChatHost.chatQueue
  chatRunId,            \* ChatState.chatRunId, 0 = null
  chatSending,          \* ChatState.chatSending
  chatStream,           \* ChatState.chatStream, NullText = null
  chatStreamStartedAt,  \* ChatState.chatStreamStartedAt, 0 = null, 1 = a time
  chatLoading,          \* ChatState.chatLoading
  lastError,            \* ChatState.lastError, NullText = null
  store,                \* the parsed content of localStorage[LOCAL_CHAT_STATE_KEY]
  heap,                 \* the ChatAttachment objects, by reference
  tasks,                \* suspended handleSendChat / flushChatQueue call chains
  saves,                \* voice-notes.save requests in flight
  loads,                \* chat.history requests in flight
  aborts,               \* chat.abort requests in flight
  ids,                  \* the generators of fresh ids
  recorder,             \* ChatHost.chatRecording, activeVoiceRecorders and the media streams
  last,                 \* observation of the operation performed last
  calc                  \* inputs and outputs observed: the remote history, merge results

vars == <<sessionKey, connected, chatMessage, chatAttachments, chatMessages,
          chatQueue, chatRunId, chatSending, chatStream, chatStreamStartedAt,
          chatLoading, lastError, store, heap, tasks, saves,
          loads, aborts, ids, recorder, last, calc>>

----------------------------------------------------------------------------
(* Bounds of the model *)

MaxAtts == 2      \* attachments created (captured or uploaded)
MaxObjs == 3      \* attachment objects alive at the same time
MaxSubs == 3      \* messages submitted through handleSendChat
MaxFewSubs == 2   \* the same, where the queue is not what is examined
MaxRuns == 3      \* run ids generated by sendChatMessage
MaxSaves == 2     \* note ids handed out by voice-notes.save
MaxMsgs == 5      \* length of chatMessages
MaxFewMsgs == 3   \* the same, where the queue is not what is examined
MaxQueue == 2     \* length of chatQueue
MaxTs == 2        \* Date.now() values seen by captures
MaxLoads == 1     \* chat.history requests in flight
MaxAborts == 1    \* chat.abort requests in flight
MaxLen == 2       \* length of the histories and lists given to the merge
MaxSaveReqs == 2  \* voice-notes.save requests issued for one attachment
MaxNotes == 2     \* attachments of the send whose outbound text is computed
MaxOver == 2      \* entries beyond a limit of the cache that a list is given
MaxAppends == 3   \* appends to a voice-note ring that is nearly full
MaxStarts == 2    \* getUserMedia calls of startVoiceNoteRecording in flight
MaxStreams == 2   \* media streams acquired in one behaviour

(* Program constants *)

LOCAL_CHAT_STATE_VERSION == 1
LOCAL_CHAT_ATTACHMENTS_LIMIT == 8
LOCAL_CHAT_VOICE_NOTES_LIMIT == 40

----------------------------------------------------------------------------
(* Texts *)

NullText == "<null>"
NoOverride == "<none>"

\* the keys of the sessions object of the stored item: those of two sessions,
\* the empty key and a key of white space
SessionKeys == {"main", "other", "", " "}

\* String.prototype.trim over the vocabulary
Trim(s) == IF s = " " THEN "" ELSE s

\* String.prototype.length over the vocabulary
TextLen(s) ==
  CASE s = "" -> 0
    [] s = " " -> 1
    [] s = "He" -> 2
    [] s = "Hi" -> 2
    [] s = "hi" -> 2
    [] s = "ov" -> 2
    [] s = "stop" -> 4
    [] s = "Hello" -> 5
    [] OTHER -> 0

\* String.prototype.toLowerCase over the vocabulary
ToLowerCase(s) ==
  CASE s = "He" -> "he"
    [] s = "Hi" -> "hi"
    [] s = "Hello" -> "hello"
    [] OTHER -> s

isChatStopCommand(text) ==
  LET trimmed == Trim(text)
      normalized == ToLowerCase(trimmed)
  IN IF trimmed = "" THEN FALSE
     ELSE normalized \in {"/stop", "stop", "esc", "abort", "wait", "exit"}

----------------------------------------------------------------------------
(* Sequences *)

Range(s) == {s[i] : i \in 1..Len(s)}

\* Array.prototype.slice(-n)
SliceLast(s, n) == IF Len(s) <= n THEN s ELSE SubSeq(s, Len(s) - n + 1, Len(s))

RECURSIVE InsertByTs(_, _)
\* insertion after every element that is not greater: the stable order of
\* Array.prototype.sort((a, b) => a.timestamp - b.timestamp)
InsertByTs(s, e) ==
  IF s = <<>> THEN <<e>>
  ELSE IF s[Len(s)].ts <= e.ts THEN Append(s, e)
  ELSE Append(InsertByTs(SubSeq(s, 1, Len(s) - 1), e), s[Len(s)])

\* a variant of SortByTs that leaves the order of the list
SortByTsKeepsOrder(s) == s

RECURSIVE SortByTs(_)
SortByTs(s) ==
  IF s = <<>> THEN <<>>
  ELSE InsertByTs(SortByTs(SubSeq(s, 1, Len(s) - 1)), s[Len(s)])

----------------------------------------------------------------------------
(* Attachments, content blocks and messages *)

\* ChatAttachment; dataUrl, mimeType and fileName are determined by id
NoObj == [id |-> 0, kind |-> "none", source |-> "none", preview |-> FALSE, pid |-> 0]

NewAttachment(id, kind, source) ==
  [id |-> id, kind |-> kind, source |-> source, preview |-> TRUE, pid |-> 0]

isVoiceNoteAttachment(attachment) == attachment.kind = "voice-note"

\* StoredChatAttachment: no previewUrl
toStoredChatAttachment(attachment) ==
  [id |-> attachment.id,
   kind |-> IF isVoiceNoteAttachment(attachment) THEN "voice-note" ELSE "image",
   source |-> attachment.source,
   pid |-> attachment.pid]

fromStoredChatAttachment(raw) ==
  [id |-> raw.id, kind |-> raw.kind, source |-> raw.source, preview |-> FALSE,
   pid |-> raw.pid]

TextBlock(text) == [type |-> "text", text |-> text, data |-> 0, pid |-> 0, url |-> FALSE]

ImageBlock(att) == [type |-> "image", text |-> "", data |-> att.id, pid |-> 0, url |-> FALSE]

\* a variant of buildVoiceNoteContentBlock that falls back to the id of the
\* attachment where no persisted id is known
buildVoiceNoteContentBlockWithId(attachment, optPid, includePreviewUrl) ==
  [type |-> "voice_note", text |-> "", data |-> attachment.id,
   pid |-> IF optPid # 0 THEN optPid ELSE attachment.id,
   url |-> includePreviewUrl /\ attachment.preview]

\* opts.persistedNoteId?.trim() || attachment.persistedNoteId
buildVoiceNoteContentBlock(attachment, optPid, includePreviewUrl) ==
  [type |-> "voice_note", text |-> "", data |-> attachment.id,
   pid |-> IF optPid # 0 THEN optPid ELSE attachment.pid,
   url |-> includePreviewUrl /\ attachment.preview]

Message(role, content, marker, ts) ==
  [role |-> role, content |-> content, marker |-> marker, ts |-> ts]

getLocalVoiceNoteMarkerId(message) == message.marker

buildLocalVoiceNoteMessage(attachment, timestamp) ==
  Message("user", <<buildVoiceNoteContentBlock(attachment, 0, TRUE)>>,
          attachment.id, timestamp)

updateLocalVoiceMessageInMemory(messages, attachment, timestamp) ==
  LET markerId == attachment.id
      nextMessage == buildLocalVoiceNoteMessage(attachment, timestamp)
      replaced == \E i \in 1..Len(messages) :
                     getLocalVoiceNoteMarkerId(messages[i]) = markerId
      next == [i \in 1..Len(messages) |->
                 IF getLocalVoiceNoteMarkerId(messages[i]) # markerId
                 THEN messages[i] ELSE nextMessage]
  IN IF replaced THEN next ELSE Append(next, nextMessage)

\* a variant that leaves the content blocks as they are
patchLocalVoiceMessageKeepsBlocks(message, attachmentId, persistedNoteId) == message

patchLocalVoiceMessagePersistedId(message, attachmentId, persistedNoteId) ==
  IF getLocalVoiceNoteMarkerId(message) # attachmentId THEN message
  ELSE [message EXCEPT !.content =
          [i \in 1..Len(message.content) |->
             IF message.content[i].type # "voice_note" THEN message.content[i]
             ELSE [message.content[i] EXCEPT !.pid = persistedNoteId]]]

\* a variant of hasLocalVoiceNoteMessage that finds no message
hasLocalVoiceNoteMessageNever(messages, attachmentId) == FALSE

hasLocalVoiceNoteMessage(messages, attachmentId) ==
  \E i \in 1..Len(messages) : getLocalVoiceNoteMarkerId(messages[i]) = attachmentId

----------------------------------------------------------------------------
(* Local cache store *)

\* StoredSessionChatState; "" and <<>> stand for an undefined field
NoEntry == [present |-> FALSE, draft |-> "", attachments |-> <<>>, voiceNotes |-> <<>>]
EmptyEntry == [present |-> TRUE, draft |-> "", attachments |-> <<>>, voiceNotes |-> <<>>]

NoSessions == [k \in SessionKeys |-> NoEntry]

\* localStorage: the item kept under LOCAL_CHAT_STATE_KEY (version 0 stands
\* for no item and for an item that is unparsable or is not a store object),
\* whether reading the backend works (readOk) and whether writing does
\* (writeOk); a backend that is not available fails at both
NoStore == [version |-> 0, sessions |-> NoSessions, readOk |-> TRUE, writeOk |-> TRUE]

\* a variant of readLocalChatStateStore that accepts an item of any version
readLocalChatStateStoreAnyVersion(st) ==
  IF ~st.readOk THEN [version |-> 0, sessions |-> NoSessions]
  ELSE [version |-> LOCAL_CHAT_STATE_VERSION, sessions |-> st.sessions]

\* null is the store with no sessions and version 0
readLocalChatStateStore(st) ==
  IF ~st.readOk THEN [version |-> 0, sessions |-> NoSessions]
  ELSE IF st.version # LOCAL_CHAT_STATE_VERSION
  THEN [version |-> 0, sessions |-> NoSessions]
  ELSE [version |-> LOCAL_CHAT_STATE_VERSION, sessions |-> st.sessions]

\* a variant of writeLocalChatStateStore whose failed write removes the item
writeLocalChatStateStoreDropsItem(st, next) ==
  IF ~st.writeOk THEN [st EXCEPT !.version = 0, !.sessions = NoSessions]
  ELSE [st EXCEPT !.version = next.version, !.sessions = next.sessions]

\* the failure of the backend is caught: the item stays as it is
writeLocalChatStateStore(st, next) ==
  IF ~st.writeOk THEN st
  ELSE [st EXCEPT !.version = next.version, !.sessions = next.sessions]

\* updateLocalSessionState up to the call of its updater: the entry handed to
\* the updater
currentSessionState(st, key) ==
  LET sessions == readLocalChatStateStore(st).sessions
  IN IF sessions[key].present THEN sessions[key] ELSE EmptyEntry

\* a variant of updateLocalSessionState that writes a store with the updated
\* session alone
updateLocalSessionStateAlone(st, key, next) ==
  IF Trim(key) = "" THEN st
  ELSE writeLocalChatStateStore(st,
            [version |-> LOCAL_CHAT_STATE_VERSION,
             sessions |-> [NoSessions EXCEPT ![key] = next]])

\* a variant of updateLocalSessionState that takes every key but the empty
\* one for a session
updateLocalSessionStateUntrimmed(st, key, next) ==
  IF key = "" THEN st
  ELSE LET sessions == readLocalChatStateStore(st).sessions
       IN writeLocalChatStateStore(st,
            [version |-> LOCAL_CHAT_STATE_VERSION,
             sessions |-> [sessions EXCEPT ![key] = next]])

\* updateLocalSessionState from the result of its updater (NoEntry for null)
updateLocalSessionState(st, key, next) ==
  IF Trim(key) = "" THEN st
  ELSE LET sessions == readLocalChatStateStore(st).sessions
       IN writeLocalChatStateStore(st,
            [version |-> LOCAL_CHAT_STATE_VERSION,
             sessions |-> [sessions EXCEPT ![key] = next]])

readLocalSessionState(st, key) ==
  IF Trim(key) = "" THEN NoEntry
  ELSE readLocalChatStateStore(st).sessions[key]

----------------------------------------------------------------------------
(* The controller state as one record, threaded through the operations of   *)
(* a macrotask; ovf records that a bound of the model was exceeded.         *)

Cur ==
  [sessionKey |-> sessionKey, connected |-> connected, chatMessage |-> chatMessage,
   chatAttachments |-> chatAttachments, chatMessages |-> chatMessages,
   chatQueue |-> chatQueue, chatRunId |-> chatRunId, chatSending |-> chatSending,
   chatStream |-> chatStream, chatStreamStartedAt |-> chatStreamStartedAt,
   chatLoading |-> chatLoading, lastError |-> lastError,
   store |-> store, heap |-> heap,
   tasks |-> tasks, saves |-> saves, loads |-> loads, aborts |-> aborts,
   ids |-> ids, recorder |-> recorder, last |-> last, calc |-> calc, ovf |-> FALSE]

\* the observation of one operation: its name, its returned value (ret, or
\* retId for an id), the requests it issued (saves, sends), whether a
\* chat.send was issued while a send was in flight or a run active, the
\* class, state and text of the event handled, the id and persisted id of
\* the attachment the operation was applied to, whether a send was handed
\* voice notes that all carried a persisted id, the id of the head of the
\* queue when the operation began (head, 0 for an empty queue), and the call
\* chain resumed by a response (task, 0 for none), the errorMessage of the
\* event handled, and the trimmed message that handleSendChat was to send
Obs(op) ==
  [op |-> op, ret |-> "none", retId |-> 0, saves |-> 0, sends |-> 0,
   busyAtSend |-> FALSE, evClass |-> "none", evState |-> "none",
   evMessage |-> "none", evText |-> NullText, att |-> 0, hadPid |-> 0,
   allPersisted |-> FALSE, head |-> 0, task |-> 0, evError |-> NullText,
   text |-> NullText]

Begin(op) == [Cur EXCEPT !.last = Obs(op)]

\* References held by the controller, its queue and its suspended call chains
Reachable(h) ==
  Range(h.chatAttachments)
    \cup UNION {Range(h.chatQueue[i].atts) : i \in 1..Len(h.chatQueue)}
    \cup UNION {Range(t.atts) \cup Range(t.prevAtts) \cup Range(t.item.atts) : t \in h.tasks}
    \cup {s.obj : s \in h.saves}

\* Objects no reference leads to are reclaimed
Collect(h) ==
  [h EXCEPT !.heap = [r \in 1..MaxObjs |->
                        IF r \in Reachable(h) THEN h.heap[r] ELSE NoObj]]

FreeRefs(h) == {r \in 1..MaxObjs : h.heap[r] = NoObj}

\* a new object; the reference is the lowest free one
NewRef(h) == IF FreeRefs(h) = {} THEN 1
             ELSE CHOOSE r \in FreeRefs(h) : \A q \in FreeRefs(h) : r <= q

Alloc(h, obj) ==
  IF FreeRefs(h) = {} THEN [h EXCEPT !.ovf = TRUE]
  ELSE [h EXCEPT !.heap[NewRef(h)] = obj]

Commit(h) ==
  \E g \in {Collect(h)} :
     /\ ~h.ovf
     /\ Len(h.chatMessages) <= MaxMsgs
     /\ Len(h.chatQueue) <= MaxQueue
     /\ sessionKey' = g.sessionKey
     /\ connected' = g.connected
     /\ chatMessage' = g.chatMessage
     /\ chatAttachments' = g.chatAttachments
     /\ chatMessages' = g.chatMessages
     /\ chatQueue' = g.chatQueue
     /\ chatRunId' = g.chatRunId
     /\ chatSending' = g.chatSending
     /\ chatStream' = g.chatStream
     /\ chatStreamStartedAt' = g.chatStreamStartedAt
     /\ chatLoading' = g.chatLoading
     /\ lastError' = g.lastError
     /\ store' = g.store
     /\ heap' = g.heap
     /\ tasks' = g.tasks
     /\ saves' = g.saves
     /\ loads' = g.loads
     /\ aborts' = g.aborts
     /\ ids' = g.ids
     /\ recorder' = g.recorder
     /\ last' = IF last.op = "off" THEN last ELSE g.last
     /\ calc' = g.calc

----------------------------------------------------------------------------
(* Cache-mutating operations of the controller *)

syncChatComposerLocalState(h) ==
  LET draft == h.chatMessage
      storedAttachments ==
        SliceLast([i \in 1..Len(h.chatAttachments) |->
                     toStoredChatAttachment(h.heap[h.chatAttachments[i]])],
                  LOCAL_CHAT_ATTACHMENTS_LIMIT)
      Updater(current) ==
        LET next == [current EXCEPT !.draft = draft, !.attachments = storedAttachments]
            hasVoiceNotes == Len(next.voiceNotes) > 0
            hasDraft == TextLen(next.draft) > 0
            hasAttachments == Len(next.attachments) > 0
        IN IF ~hasVoiceNotes /\ ~hasDraft /\ ~hasAttachments THEN NoEntry ELSE next
  IN [h EXCEPT !.store = updateLocalSessionState(h.store, h.sessionKey,
                                 Updater(currentSessionState(h.store, h.sessionKey)))]

RECURSIVE PatchAttachments(_, _, _, _)
\* state.chatAttachments.map(...): a matching attachment is replaced by a copy
PatchAttachments(h, i, attachmentId, persistedNoteId) ==
  IF i > Len(h.chatAttachments) THEN h
  ELSE LET ref == h.chatAttachments[i]
       IN IF h.heap[ref].id # attachmentId
          THEN PatchAttachments(h, i + 1, attachmentId, persistedNoteId)
          ELSE LET copy == NewRef(h)
                   h1 == Alloc(h, [h.heap[ref] EXCEPT !.pid = persistedNoteId])
               IN PatchAttachments([h1 EXCEPT !.chatAttachments[i] = copy],
                                   i + 1, attachmentId, persistedNoteId)

updateLocalVoiceNotePersistence(h, attachmentId, persistedNoteId) ==
  LET h1 == PatchAttachments(h, 1, attachmentId, persistedNoteId)
      messages == [i \in 1..Len(h1.chatMessages) |->
                     patchLocalVoiceMessagePersistedId(h1.chatMessages[i],
                                                       attachmentId, persistedNoteId)]
      Updater(current) ==
        LET nextVoiceNotes ==
              [i \in 1..Len(current.voiceNotes) |->
                 IF current.voiceNotes[i].id # attachmentId THEN current.voiceNotes[i]
                 ELSE [current.voiceNotes[i] EXCEPT !.attachment.pid = persistedNoteId]]
            nextAttachments ==
              [i \in 1..Len(current.attachments) |->
                 IF current.attachments[i].id # attachmentId THEN current.attachments[i]
                 ELSE [current.attachments[i] EXCEPT !.pid = persistedNoteId]]
        IN [current EXCEPT !.voiceNotes = nextVoiceNotes,
                           !.attachments = nextAttachments]
  IN [h1 EXCEPT !.chatMessages = messages,
                !.store = updateLocalSessionState(h1.store, h1.sessionKey,
                                 Updater(currentSessionState(h1.store, h1.sessionKey)))]

\* a variant of appendLocalVoiceNoteMessage that leaves the cache as it is
appendLocalVoiceNoteMessageInMemory(h, ref, timestamp) ==
  [h EXCEPT !.chatMessages =
              updateLocalVoiceMessageInMemory(h.chatMessages, h.heap[ref], timestamp)]

\* a variant of appendLocalVoiceNoteMessage that keeps the first notes of the
\* sorted ring, not the last
appendLocalVoiceNoteMessageKeepsOldest(h, ref, timestamp) ==
  LET attachment == h.heap[ref]
      storedAttachment == toStoredChatAttachment(attachment)
      Updater(current) ==
        LET kept == SelectSeq(current.voiceNotes, LAMBDA e : e.id # attachment.id)
            sorted == SortByTs(Append(kept, [id |-> attachment.id, ts |-> timestamp,
                                             attachment |-> storedAttachment]))
            nextVoiceNotes ==
              IF Len(sorted) <= LOCAL_CHAT_VOICE_NOTES_LIMIT THEN sorted
              ELSE SubSeq(sorted, 1, LOCAL_CHAT_VOICE_NOTES_LIMIT)
        IN [current EXCEPT !.voiceNotes = nextVoiceNotes]
  IN [h EXCEPT !.chatMessages =
                  updateLocalVoiceMessageInMemory(h.chatMessages, attachment, timestamp),
               !.store = updateLocalSessionState(h.store, h.sessionKey,
                                 Updater(currentSessionState(h.store, h.sessionKey)))]

appendLocalVoiceNoteMessage(h, ref, timestamp) ==
  LET attachment == h.heap[ref]
      storedAttachment == toStoredChatAttachment(attachment)
      Updater(current) ==
        LET kept == SelectSeq(current.voiceNotes, LAMBDA e : e.id # attachment.id)
            nextVoiceNotes ==
              SliceLast(SortByTs(Append(kept, [id |-> attachment.id, ts |-> timestamp,
                                               attachment |-> storedAttachment])),
                        LOCAL_CHAT_VOICE_NOTES_LIMIT)
        IN [current EXCEPT !.voiceNotes = nextVoiceNotes]
  IN [h EXCEPT !.chatMessages =
                  updateLocalVoiceMessageInMemory(h.chatMessages, attachment, timestamp),
               !.store = updateLocalSessionState(h.store, h.sessionKey,
                                 Updater(currentSessionState(h.store, h.sessionKey)))]

----------------------------------------------------------------------------
(* History merge *)

loadLocalVoiceNoteMessages(st, key) ==
  LET session == readLocalSessionState(st, key)
      entries == [i \in 1..Len(session.voiceNotes) |->
                    buildLocalVoiceNoteMessage(
                      [fromStoredChatAttachment(session.voiceNotes[i].attachment)
                         EXCEPT !.id = session.voiceNotes[i].id],
                      session.voiceNotes[i].ts)]
  IN IF ~session.present THEN <<>> ELSE SortByTs(entries)

\* a variant of Markers that collects no marker id from the history
MarkersNone(history) == {}

\* the seen set after the loop over history
Markers(history) ==
  {getLocalVoiceNoteMarkerId(history[i]) : i \in 1..Len(history)} \ {0}

RECURSIVE MergeFromIgnoresSeen(_, _, _, _)
\* a variant of the loop that appends every marked local message, seen or not
MergeFromIgnoresSeen(merged, seen, localVoiceNotes, i) ==
  IF i > Len(localVoiceNotes) THEN merged
  ELSE LET markerId == getLocalVoiceNoteMarkerId(localVoiceNotes[i])
       IN IF markerId = 0
          THEN MergeFromIgnoresSeen(merged, seen, localVoiceNotes, i + 1)
          ELSE MergeFromIgnoresSeen(Append(merged, localVoiceNotes[i]),
                                    seen \cup {markerId}, localVoiceNotes, i + 1)

RECURSIVE MergeFrom(_, _, _, _)
\* the loop over localVoiceNotes, with the merged list and the seen set
MergeFrom(merged, seen, localVoiceNotes, i) ==
  IF i > Len(localVoiceNotes) THEN merged
  ELSE LET markerId == getLocalVoiceNoteMarkerId(localVoiceNotes[i])
       IN IF markerId = 0 \/ markerId \in seen
          THEN MergeFrom(merged, seen, localVoiceNotes, i + 1)
          ELSE MergeFrom(Append(merged, localVoiceNotes[i]), seen \cup {markerId},
                         localVoiceNotes, i + 1)

\* a variant of the merge that appends every local message
mergeLocalVoiceNoteMessagesAppendAll(history, localVoiceNotes) ==
  history \o localVoiceNotes

mergeLocalVoiceNoteMessages(history, localVoiceNotes) ==
  IF Len(localVoiceNotes) = 0 THEN history
  ELSE MergeFrom(history, Markers(history), localVoiceNotes, 1)

RECURSIVE RestoreAttachments(_, _, _)
\* session.attachments.map(fromStoredChatAttachment): new objects
RestoreAttachments(h, stored, i) ==
  IF i > Len(stored) THEN h
  ELSE LET ref == NewRef(h)
           h1 == Alloc(h, fromStoredChatAttachment(stored[i]))
       IN RestoreAttachments([h1 EXCEPT !.chatAttachments = Append(@, ref)], stored, i + 1)

\* a variant of restoreComposerStateFromLocalStorage that takes the cached
\* draft whatever the composer holds
restoreComposerStateFromLocalStorageOverwrites(h) ==
  LET session == readLocalSessionState(h.store, h.sessionKey)
      h1 == IF session.draft # ""
            THEN [h EXCEPT !.chatMessage = session.draft] ELSE h
  IN IF ~session.present THEN h
     ELSE IF Len(h1.chatAttachments) > 0 \/ Len(session.attachments) = 0 THEN h1
     ELSE RestoreAttachments(h1, session.attachments, 1)

restoreComposerStateFromLocalStorage(h) ==
  LET session == readLocalSessionState(h.store, h.sessionKey)
      h1 == IF h.chatMessage = "" /\ session.draft # ""
            THEN [h EXCEPT !.chatMessage = session.draft] ELSE h
  IN IF ~session.present THEN h
     ELSE IF Len(h1.chatAttachments) > 0 \/ Len(session.attachments) = 0 THEN h1
     ELSE RestoreAttachments(h1, session.attachments, 1)

----------------------------------------------------------------------------
(* Attachment lifecycle *)

\* persistVoiceNoteAttachment up to its await: the returned id (0 = null) when
\* it returns at once, or a voice-notes.save request in flight for owner
\* (a send task id, 0 for the capture, -1 for a call of the host)
persistVoiceNoteAttachment(h, ref, owner) ==
  IF ~h.connected THEN [h |-> h, ret |-> 0, pending |-> FALSE]
  ELSE IF h.heap[ref].pid # 0 THEN [h |-> h, ret |-> h.heap[ref].pid, pending |-> FALSE]
  ELSE [h |-> [h EXCEPT !.saves = @ \cup {[obj |-> ref, owner |-> owner]},
                        !.last.saves = @ + 1,
                        !.calc.saveRequests[h.heap[ref].id] = @ + 1,
                        !.ovf = @ \/ h.calc.saveRequests[h.heap[ref].id] >= MaxSaveReqs],
        ret |-> 0, pending |-> TRUE]

\* a variant of persistVoiceNoteAttachmentResume that drops the local message
\* of the attachment when the save fails
persistVoiceNoteAttachmentResumeDropsLocal(h, s, outcome) ==
  LET h0 == [h EXCEPT !.saves = @ \ {s}]
      persistedId == h0.ids.pid
      h1 == [h0 EXCEPT !.ids.pid = @ + 1,
                       !.ovf = @ \/ persistedId > MaxSaves,
                       !.heap[s.obj].pid = persistedId]
  IN IF outcome # "id"
     THEN [h |-> [h0 EXCEPT !.chatMessages =
                    SelectSeq(@, LAMBDA m : m.marker # h0.heap[s.obj].id)],
           ret |-> 0]
     ELSE [h |-> updateLocalVoiceNotePersistence(h1, h0.heap[s.obj].id, persistedId),
           ret |-> persistedId]

\* persistVoiceNoteAttachment after its await; outcome is the response:
\* "id" (a note with a fresh id), "noid" (no note id) or "reject"
persistVoiceNoteAttachmentResume(h, s, outcome) ==
  LET h0 == [h EXCEPT !.saves = @ \ {s}]
      persistedId == h0.ids.pid
      h1 == [h0 EXCEPT !.ids.pid = @ + 1,
                       !.ovf = @ \/ persistedId > MaxSaves,
                       !.heap[s.obj].pid = persistedId]
  IN IF outcome # "id" THEN [h |-> h0, ret |-> 0]
     ELSE [h |-> updateLocalVoiceNotePersistence(h1, h0.heap[s.obj].id, persistedId),
           ret |-> persistedId]

----------------------------------------------------------------------------
(* Run state machine: sendChatMessage *)

NoItem == [id |-> 0, text |-> "", atts |-> <<>>]

NoPids == [a \in 1..MaxAtts |-> 0]

\* the call chain of one send: handleSendChat or flushChatQueue, then
\* sendChatMessageNow, then sendChatMessage
NewTask(tid, origin, message, atts, hasPrev, prevDraft, prevAtts, restore, item) ==
  [tid |-> tid, origin |-> origin, st |-> "start", msg |-> message, atts |-> atts,
   hasPrev |-> hasPrev, prevDraft |-> prevDraft, prevAtts |-> prevAtts,
   restore |-> restore, item |-> item, pids |-> NoPids, runId |-> 0]

\* a variant of isChatBusy that looks at chatSending alone
isChatBusySendingOnly(h) == h.chatSending

isChatBusy(h) == h.chatSending \/ h.chatRunId # 0

VoiceRefs(h, atts) == SelectSeq(atts, LAMBDA r : isVoiceNoteAttachment(h.heap[r]))
ImageRefs(h, atts) == SelectSeq(atts, LAMBDA r : ~isVoiceNoteAttachment(h.heap[r]))

RECURSIVE PersistAll(_, _, _, _)
\* voiceNoteAttachments.map(async ...) of sendChatMessage, up to the awaits
PersistAll(h, t, voice, i) ==
  IF i > Len(voice) THEN [h |-> h, t |-> t]
  ELSE LET attachment == h.heap[voice[i]]
           knownId == attachment.pid
           p == persistVoiceNoteAttachment(h, voice[i], t.tid)
       IN IF knownId # 0
          THEN PersistAll(h, [t EXCEPT !.pids[attachment.id] = knownId], voice, i + 1)
          ELSE PersistAll(p.h,
                          IF p.ret # 0 THEN [t EXCEPT !.pids[attachment.id] = p.ret] ELSE t,
                          voice, i + 1)

\* the content blocks of the user message that sendChatMessage builds
contentBlocksOf(h, t) ==
  LET msg == Trim(t.msg)
      images == ImageRefs(h, t.atts)
      voice == SelectSeq(VoiceRefs(h, t.atts),
                         LAMBDA r : ~hasLocalVoiceNoteMessage(h.chatMessages, h.heap[r].id))
  IN (IF msg # "" THEN <<TextBlock(msg)>> ELSE <<>>)
       \o [i \in 1..Len(images) |-> ImageBlock(h.heap[images[i]])]
       \o [i \in 1..Len(voice) |->
             buildVoiceNoteContentBlock(h.heap[voice[i]],
                                        t.pids[h.heap[voice[i]].id], TRUE)]

\* a variant of sendChatMessageSend that issues the request without binding
\* chatRunId to its idempotencyKey
sendChatMessageSendUnbound(h, t) ==
  LET contentBlocks == contentBlocksOf(h, t)
      runId == h.ids.run
  IN [h EXCEPT !.chatMessages = IF Len(contentBlocks) > 0
                                THEN Append(@, Message("user", contentBlocks, 0, 0))
                                ELSE @,
               !.last.busyAtSend = @ \/ isChatBusy(h) \/ (\E u \in h.tasks : u.st = "sending"),
               !.last.sends = @ + 1,
               !.chatSending = TRUE,
               !.lastError = NullText,
               !.ids.run = @ + 1,
               !.ovf = @ \/ runId > MaxRuns,
               !.chatStream = "",
               !.chatStreamStartedAt = 1,
               !.tasks = @ \cup {[t EXCEPT !.st = "sending", !.runId = runId]}]

\* sendChatMessage from the content blocks to the chat.send request
sendChatMessageSend(h, t) ==
  LET contentBlocks == contentBlocksOf(h, t)
      runId == h.ids.run
  IN [h EXCEPT !.chatMessages = IF Len(contentBlocks) > 0
                                THEN Append(@, Message("user", contentBlocks, 0, 0))
                                ELSE @,
               !.last.busyAtSend = @ \/ isChatBusy(h) \/ (\E u \in h.tasks : u.st = "sending"),
               !.last.sends = @ + 1,
               !.chatSending = TRUE,
               !.lastError = NullText,
               !.ids.run = @ + 1,
               !.ovf = @ \/ runId > MaxRuns,
               !.chatRunId = runId,
               !.chatStream = "",
               !.chatStreamStartedAt = 1,
               !.tasks = @ \cup {[t EXCEPT !.st = "sending", !.runId = runId]}]

\* sendChatMessage up to its first await; done when it returned (null) at once
sendChatMessage(h, t) ==
  LET msg == Trim(t.msg)
      voice == VoiceRefs(h, t.atts)
      p == PersistAll(h, t, voice, 1)
  IN IF ~h.connected THEN [h |-> h, done |-> TRUE]
     ELSE IF msg = "" /\ Len(t.atts) = 0 THEN [h |-> h, done |-> TRUE]
     ELSE IF \E s \in p.h.saves : s.owner = t.tid
          THEN [h |-> [p.h EXCEPT !.tasks = @ \cup {[p.t EXCEPT !.st = "persisting"]}],
                done |-> FALSE]
          ELSE [h |-> sendChatMessageSend(p.h, p.t), done |-> FALSE]

\* a variant of sendChatMessageResume without the finally: a rejected
\* request leaves chatSending set
sendChatMessageResumeNoFinally(h, t, ok) ==
  LET h0 == [h EXCEPT !.tasks = @ \ {t}]
  IN IF ok THEN [h0 EXCEPT !.chatSending = FALSE]
     ELSE [h0 EXCEPT !.chatRunId = 0,
                     !.chatStream = NullText,
                     !.chatStreamStartedAt = 0,
                     !.lastError = "request failed",
                     !.chatMessages =
                        Append(@, Message("assistant", <<TextBlock("Error")>>, 0, 0))]

\* a variant of sendChatMessageResume whose catch leaves the stream buffer
sendChatMessageResumeKeepsStream(h, t, ok) ==
  LET h0 == [h EXCEPT !.tasks = @ \ {t}]
  IN IF ok THEN [h0 EXCEPT !.chatSending = FALSE]
     ELSE [h0 EXCEPT !.chatRunId = 0,
                     !.chatStreamStartedAt = 0,
                     !.lastError = "request failed",
                     !.chatMessages =
                        Append(@, Message("assistant", <<TextBlock("Error")>>, 0, 0)),
                     !.chatSending = FALSE]

\* sendChatMessage after the chat.send response
sendChatMessageResume(h, t, ok) ==
  LET h0 == [h EXCEPT !.tasks = @ \ {t}]
  IN IF ok THEN [h0 EXCEPT !.chatSending = FALSE]
     ELSE [h0 EXCEPT !.chatRunId = 0,
                     !.chatStream = NullText,
                     !.chatStreamStartedAt = 0,
                     !.lastError = "request failed",
                     !.chatMessages =
                        Append(@, Message("assistant", <<TextBlock("Error")>>, 0, 0)),
                     !.chatSending = FALSE]

----------------------------------------------------------------------------
(* Send queue *)

\* a variant of sendChatMessageNowFailed that restores the composer and does
\* not cache it
sendChatMessageNowFailedUncached(h, t) ==
  IF t.hasPrev THEN [h EXCEPT !.chatMessage = t.prevDraft,
                              !.chatAttachments = t.prevAtts]
  ELSE h

\* sendChatMessageNow after sendChatMessage returned null
sendChatMessageNowFailed(h, t) ==
  LET h1 == IF t.hasPrev THEN [h EXCEPT !.chatMessage = t.prevDraft,
                                        !.chatAttachments = t.prevAtts]
            ELSE h
  IN syncChatComposerLocalState(h1)

\* flushChatQueue up to its await; failing at once it puts the item back
flushChatQueue(h) ==
  LET next == h.chatQueue[1]
      rest == Tail(h.chatQueue)
      t == NewTask(next.id, "flush", next.text, next.atts, FALSE, "", <<>>, FALSE, next)
      r == sendChatMessage([h EXCEPT !.chatQueue = rest], t)
      failed == sendChatMessageNowFailed(r.h, t)
  IN IF ~h.connected \/ isChatBusy(h) THEN h
     ELSE IF Len(h.chatQueue) = 0 THEN h
     ELSE IF r.done THEN [failed EXCEPT !.chatQueue = <<next>> \o @]
     ELSE r.h

\* a variant of sendChatMessageNowOk that restores the draft and the
\* attachments of every send
sendChatMessageNowOkRestores(h, t) ==
  LET h1 == IF t.hasPrev /\ Trim(t.prevDraft) # ""
            THEN [h EXCEPT !.chatMessage = t.prevDraft] ELSE h
      h2 == IF t.hasPrev /\ Len(t.prevAtts) > 0
            THEN [h1 EXCEPT !.chatAttachments = t.prevAtts] ELSE h1
      h3 == syncChatComposerLocalState(h2)
  IN IF h3.chatRunId = 0 THEN flushChatQueue(h3) ELSE h3

\* sendChatMessageNow after sendChatMessage returned a run id
sendChatMessageNowOk(h, t) ==
  LET h1 == IF t.restore /\ t.hasPrev /\ Trim(t.prevDraft) # ""
            THEN [h EXCEPT !.chatMessage = t.prevDraft] ELSE h
      h2 == IF t.restore /\ t.hasPrev /\ Len(t.prevAtts) > 0
            THEN [h1 EXCEPT !.chatAttachments = t.prevAtts] ELSE h1
      h3 == syncChatComposerLocalState(h2)
  IN IF h3.chatRunId = 0 THEN flushChatQueue(h3) ELSE h3

\* the rest of the call chain after the chat.send response: sendChatMessage,
\* sendChatMessageNow and, for a flush, flushChatQueue
sendTaskResume(h, t, ok) ==
  LET h1 == sendChatMessageResume(h, t, ok)
      h2 == IF ok THEN sendChatMessageNowOk(h1, t) ELSE sendChatMessageNowFailed(h1, t)
  IN IF ~ok /\ t.origin = "flush" THEN [h2 EXCEPT !.chatQueue = <<t.item>> \o @]
     ELSE h2

RECURSIVE CopyAttachments(_, _, _, _)
\* attachments.map((att) => ({ ...att })): new objects
CopyAttachments(h, atts, i, copies) ==
  IF i > Len(atts) THEN [h |-> h, copies |-> copies]
  ELSE LET ref == NewRef(h)
           h1 == Alloc(h, h.heap[atts[i]])
       IN CopyAttachments(h1, atts, i + 1, Append(copies, ref))

enqueueChatMessage(h, text, attachments) ==
  LET trimmed == Trim(text)
      hasAttachments == Len(attachments) > 0
      c == CopyAttachments(h, attachments, 1, <<>>)
      id == h.ids.sub
  IN IF trimmed = "" /\ ~hasAttachments THEN h
     ELSE [c.h EXCEPT !.ids.sub = @ + 1,
                      !.ovf = @ \/ id > MaxSubs,
                      !.chatQueue = Append(@, [id |-> id, text |-> trimmed,
                                               atts |-> c.copies])]

\* a variant of abortChatRun that clears the run at once
abortChatRunOptimistic(h) ==
  IF ~h.connected THEN h
  ELSE [h EXCEPT !.aborts = @ + 1, !.ovf = @ \/ h.aborts >= MaxAborts,
                 !.chatRunId = 0, !.chatStream = NullText, !.chatStreamStartedAt = 0]

abortChatRun(h) ==
  IF ~h.connected THEN h
  ELSE [h EXCEPT !.aborts = @ + 1, !.ovf = @ \/ h.aborts >= MaxAborts]

handleAbortChat(h) ==
  IF ~h.connected THEN h
  ELSE abortChatRun(syncChatComposerLocalState([h EXCEPT !.chatMessage = ""]))

handleSendChat(h, messageOverride, restoreDraft) ==
  LET noOverride == messageOverride = NoOverride
      previousDraft == h.chatMessage
      message == Trim(IF noOverride THEN h.chatMessage ELSE messageOverride)
      attachments == h.chatAttachments
      attachmentsToSend == IF noOverride THEN attachments ELSE <<>>
      hasAttachments == Len(attachmentsToSend) > 0
      h1 == IF noOverride
            THEN syncChatComposerLocalState([h EXCEPT !.chatMessage = "",
                                                      !.chatAttachments = <<>>])
            ELSE h
      tid == h1.ids.sub
      t == NewTask(tid, "user", message, attachmentsToSend, noOverride,
                   IF noOverride THEN previousDraft ELSE "",
                   IF noOverride THEN attachments ELSE <<>>,
                   ~noOverride /\ messageOverride # "" /\ restoreDraft, NoItem)
      r == sendChatMessage([h1 EXCEPT !.ids.sub = @ + 1, !.ovf = @ \/ tid > MaxSubs], t)
  IN IF ~h.connected THEN h
     ELSE IF message = "" /\ ~hasAttachments THEN h
     ELSE IF isChatStopCommand(message) THEN handleAbortChat([h EXCEPT !.last.ret = "stop"])
     ELSE IF isChatBusy(h1) THEN enqueueChatMessage(h1, message, attachmentsToSend)
     ELSE IF r.done THEN sendChatMessageNowFailed(r.h, t)
     ELSE r.h

removeQueuedMessage(h, id) ==
  [h EXCEPT !.chatQueue = SelectSeq(@, LAMBDA item : item.id # id)]

----------------------------------------------------------------------------
(* Run state machine: push events *)

\* ChatEventPayload.  message is "none" (undefined), "assistant" (role
\* assistant with an array content holding text) or "malformed" (an object
\* that is not such a message); text is the display text of the message.
Payload(key, runId, state, message, text, errorMessage) ==
  [sessionKey |-> key, runId |-> runId, state |-> state, message |-> message,
   text |-> text, errorMessage |-> errorMessage]

\* extractText of chat/message-extract.ts: the display text, or null
extractText(payload) == IF payload.message = "none" THEN NullText ELSE payload.text

\* a variant of normalizeAbortedAssistantMessage that accepts every object
normalizeAbortedAnyMessage(payload) ==
  IF payload.message # "none"
  THEN <<Message("assistant", <<TextBlock(payload.text)>>, 0, 0)>>
  ELSE <<>>

normalizeAbortedAssistantMessage(payload) ==
  IF payload.message = "assistant"
  THEN <<Message("assistant", <<TextBlock(payload.text)>>, 0, 0)>>
  ELSE <<>>

\* a variant of isOtherSession without the session guard
isOtherSessionUnguarded(h, payload) == FALSE

\* payload.sessionKey !== state.sessionKey
isOtherSession(h, payload) == payload.sessionKey # h.sessionKey

\* a variant of errorMessageOf that always gives the default message
errorMessageDefault(payload) == "chat error"

\* payload.errorMessage ?? "chat error"
errorMessageOf(payload) ==
  IF payload.errorMessage # NullText THEN payload.errorMessage ELSE "chat error"

\* a variant of isOtherRun without the run-id guard: every event is handled
\* as an event of the controller's run
isOtherRunUnguarded(h, payload) == FALSE

\* the event carries a run id, a run is active, and they differ
isOtherRun(h, payload) ==
  payload.runId # 0 /\ h.chatRunId # 0 /\ payload.runId # h.chatRunId

\* a variant of deltaReplaces without the length guard
deltaReplacesAlways(current, next) == TRUE

\* !current || next.length >= current.length
deltaReplaces(current, next) == current = "" \/ TextLen(next) >= TextLen(current)

\* a variant of clearRun that leaves the start time of the stream
clearRunKeepsStartedAt(h) == [h EXCEPT !.chatStream = NullText, !.chatRunId = 0]

\* the three assignments that end a run
clearRun(h) ==
  [h EXCEPT !.chatStream = NullText, !.chatRunId = 0, !.chatStreamStartedAt = 0]

\* handleChatEvent for a payload that is present; the result is in last.ret
handleChatEvent(h, payload) ==
  LET next == extractText(payload)
      current == IF h.chatStream = NullText THEN "" ELSE h.chatStream
      normalizedMessage == normalizeAbortedAssistantMessage(payload)
      streamedText == IF h.chatStream = NullText THEN "" ELSE h.chatStream
      returned == [h EXCEPT !.last.ret = payload.state]
  IN IF isOtherSession(h, payload) THEN [h EXCEPT !.last.ret = "null"]
     ELSE IF isOtherRun(h, payload)
     THEN IF payload.state = "final" THEN [h EXCEPT !.last.ret = "final"]
          ELSE [h EXCEPT !.last.ret = "null"]
     ELSE IF payload.state = "delta"
     THEN IF next # NullText /\ deltaReplaces(current, next)
          THEN [returned EXCEPT !.chatStream = next]
          ELSE returned
     ELSE IF payload.state = "final" THEN clearRun(returned)
     ELSE IF payload.state = "aborted"
     THEN IF normalizedMessage # <<>>
          THEN clearRun([returned EXCEPT !.chatMessages = @ \o normalizedMessage])
          ELSE IF Trim(streamedText) # ""
          THEN clearRun([returned EXCEPT !.chatMessages =
                  Append(@, Message("assistant", <<TextBlock(streamedText)>>, 0, 0))])
          ELSE clearRun(returned)
     ELSE [clearRun(returned) EXCEPT !.lastError = errorMessageOf(payload)]

----------------------------------------------------------------------------
(* History load *)

\* the messages chat.history may return: an assistant reply, and the echo of
\* a voice-note message with its marker
ServerMessage == Message("assistant", <<TextBlock("Hello")>>, 0, 0)

EchoMessage(a) ==
  Message("user", <<[type |-> "voice_note", text |-> "", data |-> a, pid |-> 0,
                     url |-> FALSE]>>, a, 0)

SeqsUpTo(S, n) == UNION {[1..k -> S] : k \in 0..n}

RemoteHistories == SeqsUpTo({ServerMessage} \cup {EchoMessage(a) : a \in 1..MaxAtts}, MaxLen)

loadChatHistory(h) ==
  IF ~h.connected THEN h
  ELSE [h EXCEPT !.chatLoading = TRUE, !.lastError = NullText,
                 !.loads = @ + 1, !.ovf = @ \/ h.loads >= MaxLoads]

loadChatHistoryResume(h, ok, remoteMessages) ==
  LET localVoiceNotes == loadLocalVoiceNoteMessages(h.store, h.sessionKey)
      h1 == [h EXCEPT !.loads = @ - 1,
                      !.chatMessages =
                         mergeLocalVoiceNoteMessages(remoteMessages, localVoiceNotes)]
  IN IF ok THEN [restoreComposerStateFromLocalStorage(h1) EXCEPT !.chatLoading = FALSE]
     ELSE [h EXCEPT !.loads = @ - 1, !.lastError = "request failed",
                    !.chatLoading = FALSE]

----------------------------------------------------------------------------
(* Outbound text of a send with voice notes.  Here a text is the sequence   *)
(* of its characters, and an optional field is a record with the flag has. *)

Whitespace == {" ", "\n"}

RECURSIVE TrimStart(_)
TrimStart(s) ==
  IF s = <<>> THEN <<>>
  ELSE IF s[1] \in Whitespace THEN TrimStart(Tail(s)) ELSE s

RECURSIVE TrimEnd(_)
TrimEnd(s) ==
  IF s = <<>> THEN <<>>
  ELSE IF s[Len(s)] \in Whitespace THEN TrimEnd(SubSeq(s, 1, Len(s) - 1)) ELSE s

\* String.prototype.trim on a sequence of characters
TrimText(s) == TrimEnd(TrimStart(s))

RECURSIVE Join(_, _)
\* Array.prototype.join
Join(parts, separator) ==
  IF parts = <<>> THEN <<>>
  ELSE IF Len(parts) = 1 THEN parts[1]
  ELSE parts[1] \o separator \o Join(Tail(parts), separator)

\* Array.prototype.filter(Boolean) on texts: the empty text is dropped
FilterNonEmpty(parts) == SelectSeq(parts, LAMBDA part : part # <<>>)

Absent == [has |-> FALSE, value |-> <<>>]
Given(value) == [has |-> TRUE, value |-> value]

\* a variant of normalizeTranscript that keeps the empty parts
normalizeTranscriptKeepsEmpty(attachment) ==
  IF attachment.transcript.has THEN TrimText(attachment.transcript.value)
  ELSE IF ~attachment.transcriptParts.has THEN <<>>
  ELSE Join([i \in 1..Len(attachment.transcriptParts.value) |->
               TrimText(attachment.transcriptParts.value[i])], <<"\n">>)

normalizeTranscript(attachment) ==
  IF attachment.transcript.has THEN TrimText(attachment.transcript.value)
  ELSE IF ~attachment.transcriptParts.has THEN <<>>
  ELSE Join(FilterNonEmpty([i \in 1..Len(attachment.transcriptParts.value) |->
                              TrimText(attachment.transcriptParts.value[i])]),
            <<"\n">>)

\* the decimal digits of index + 1
Digits(n) == CASE n = 1 -> <<"1">> [] n = 2 -> <<"2">> [] n = 3 -> <<"3">>
               [] OTHER -> <<"4">>

\* attachment.fileName?.trim() || `Voice note ${index + 1}`
VoiceNoteLabel(attachment, position) ==
  IF attachment.fileName.has /\ TrimText(attachment.fileName.value) # <<>>
  THEN TrimText(attachment.fileName.value)
  ELSE <<"V", "o", "i", "c", "e", " ", "n", "o", "t", "e", " ">> \o Digits(position)

buildVoiceNotePromptText(voiceNotes) ==
  LET Entry(position) ==
        LET label == VoiceNoteLabel(voiceNotes[position], position)
            transcript == normalizeTranscript(voiceNotes[position])
        IN IF transcript = <<>> THEN <<"[">> \o label \o <<"]">>
           ELSE <<"[">> \o label
                  \o <<" ", "t", "r", "a", "n", "s", "c", "r", "i", "p", "t", "]", "\n">>
                  \o transcript
  IN IF Len(voiceNotes) = 0 THEN <<>>
     ELSE TrimText(Join([i \in 1..Len(voiceNotes) |-> Entry(i)], <<"\n", "\n">>))

\* sendChatMessage: the message parameter of chat.send
outboundMessage(message, attachments) ==
  LET msg == TrimText(message)
      voiceNoteAttachments == SelectSeq(attachments, isVoiceNoteAttachment)
      voicePromptText == buildVoiceNotePromptText(voiceNoteAttachments)
  IN Join(FilterNonEmpty(<<msg, voicePromptText>>), <<"\n", "\n">>)

\* sendChatMessage: the attachments parameter of chat.send, by attachment id
\* (<<>> stands for undefined)
apiAttachments(attachments) ==
  LET imageAttachments ==
        SelectSeq(attachments, LAMBDA attachment : ~isVoiceNoteAttachment(attachment))
  IN [i \in 1..Len(imageAttachments) |-> imageAttachments[i].id]

\* persistVoiceNoteAttachment: the transcript parameter of voice-notes.save
\* (<<>> stands for undefined)
saveTranscript(attachment) == normalizeTranscript(attachment)

----------------------------------------------------------------------------
(* Actions: one per macrotask *)

\* calc: the remote history of the last chat.history response (R), the
\* number of voice-notes.save requests issued per attachment id, and for the
\* merge specification its local list (L) and results (out, again, step),
\* the version of the item found in localStorage at the start (found), and
\* the draft and the attachments that the composer held the last time the
\* page was loaded again with a composer that was not empty, if the cache
\* held them (composer), and for the specification of the limits the length
\* of the composer list given to syncChatComposerLocalState (size), the
\* timestamp given to appendLocalVoiceNoteMessage (ts) and the ring before
\* that append (ring)
NoCalc == [R |-> <<>>, L |-> <<>>, out |-> <<>>, again |-> <<>>, step |-> 0,
           saveRequests |-> [a \in 1..MaxAtts |-> 0], found |-> 0,
           composer |-> <<"", <<>>>>, size |-> 0, ts |-> 0, ring |-> <<>>]

\* createState({ sessionKey: key })
\* no recording: chatRecording is false, activeVoiceRecorders has no entry of
\* the host (active = 0), no getUserMedia call (starts) and no
\* stopVoiceNoteRecording (stops) is suspended, no media stream is running;
\* a recorder is named by its stream, yielded pairs a stream with the ids of
\* the attachments made of its recording
NoRecorder ==
  [chatRecording |-> FALSE, active |-> 0, stopping |-> {}, starts |-> 0,
   streams |-> {}, stops |-> {}, next |-> 1, yielded |-> {}]

InitMemoryOf(key) ==
  /\ sessionKey = key
  /\ connected = FALSE
  /\ chatMessage = ""
  /\ chatAttachments = <<>>
  /\ chatMessages = <<>>
  /\ chatQueue = <<>>
  /\ chatRunId = 0
  /\ chatSending = FALSE
  /\ chatStream = NullText
  /\ chatStreamStartedAt = 0
  /\ chatLoading = FALSE
  /\ lastError = NullText
  /\ heap = [r \in 1..MaxObjs |-> NoObj]
  /\ tasks = {}
  /\ saves = {}
  /\ loads = 0
  /\ aborts = 0
  /\ ids = [att |-> 1, run |-> 1, sub |-> 1, pid |-> 1]
  /\ recorder = NoRecorder

InitMemory == InitMemoryOf("main")

InitHost ==
  /\ InitMemory
  /\ store = NoStore

InitHost0 ==
  /\ InitHost
  /\ calc = NoCalc

\* Init of the specifications whose claims read the variable last
InitObserved == InitHost0 /\ last = Obs("init")

\* Init of the specifications whose claims do not: last stays "off"
Init == InitHost0 /\ last = Obs("off")

\* the cap on chatMessages of the specifications that do not examine the queue
FewMessages == Len(chatMessages') <= MaxFewMsgs

\* the gateway connection opens or closes
SetConnected(b) ==
  /\ connected # b
  /\ Commit([Begin("connected") EXCEPT !.connected = b])

SetChatDraft(next) ==
  Commit(syncChatComposerLocalState([Begin("setChatDraft") EXCEPT !.chatMessage = next]))

\* setChatAttachments([...chatAttachments, attachment]) for a selected file
AddAttachment(kind) ==
  LET h == Begin("setChatAttachments")
      id == h.ids.att
      ref == NewRef(h)
      h1 == Alloc(h, NewAttachment(id, kind, "upload"))
  IN /\ id <= MaxAtts
     /\ Commit(syncChatComposerLocalState(
          [h1 EXCEPT !.ids.att = @ + 1, !.chatAttachments = Append(@, ref)]))

\* setChatAttachments(chatAttachments without its i-th element)
RemoveAttachment(i) ==
  LET h == Begin("setChatAttachments")
  IN /\ i \in 1..Len(chatAttachments)
     /\ Commit(syncChatComposerLocalState(
          [h EXCEPT !.chatAttachments =
             SubSeq(@, 1, i - 1) \o SubSeq(@, i + 1, Len(@))]))

\* stopVoiceNoteRecording once the recording is read: the attachment is
\* created, cached and its durable save is requested (chatRecordError, the
\* text of the recorder UI, is not part of the state)
CaptureVoiceNote(now) ==
  LET h == [Begin("capture") EXCEPT !.last.att = ids.att]
      id == h.ids.att
      ref == NewRef(h)
      h1 == Alloc(h, NewAttachment(id, "voice-note", "record"))
      h2 == [h1 EXCEPT !.ids.att = @ + 1, !.chatAttachments = Append(@, ref)]
      h3 == syncChatComposerLocalState(appendLocalVoiceNoteMessage(h2, ref, now))
      p == persistVoiceNoteAttachment(h3, ref, 0)
  IN /\ id <= MaxAtts
     /\ Commit([p.h EXCEPT !.last.retId = p.ret])

\* a call of the exported persistVoiceNoteAttachment by the host, on an
\* attachment of the composer
PersistAttachment(i) ==
  /\ i \in 1..Len(chatAttachments)
  /\ LET ref == chatAttachments[i]
         h == [Begin("persist") EXCEPT !.last.att = heap[ref].id,
                                       !.last.hadPid = heap[ref].pid]
         p == persistVoiceNoteAttachment(h, ref, -1)
     IN /\ isVoiceNoteAttachment(heap[ref])
        /\ [obj |-> ref, owner |-> -1] \notin saves
        /\ Commit([p.h EXCEPT !.last.retId = p.ret,
                              !.last.ret = IF p.pending THEN "pending" ELSE "returned"])

\* the finally block of stopVoiceNoteRecording, for the call t that was
\* suspended: the stream of the recorder the call read is stopped, the entry
\* that activeVoiceRecorders holds for the host now is deleted
stopVoiceNoteRecordingFinally(h, t) ==
  [h EXCEPT !.recorder.streams = @ \ {t.stream},
            !.recorder.active = 0,
            !.recorder.chatRecording = FALSE,
            !.recorder.stops = @ \ {t}]

\* stopVoiceNoteRecording up to its first await
stopVoiceNoteRecording(h) ==
  LET active == h.recorder.active
  IN IF active = 0 THEN [h EXCEPT !.recorder.chatRecording = FALSE]
     ELSE IF active \in h.recorder.stopping THEN h
     ELSE [h EXCEPT !.recorder.stopping = @ \cup {active},
                    !.recorder.stops = @ \cup {[stream |-> active, phase |-> "blob",
                                                obj |-> 0]}]

\* startVoiceNoteRecording up to its await of getUserMedia; supported is
\* whether the browser has getUserMedia and MediaRecorder
startVoiceNoteRecording(h, supported) ==
  IF ~h.connected \/ ~supported THEN h
  ELSE [h EXCEPT !.recorder.starts = @ + 1,
                 !.ovf = @ \/ h.recorder.starts >= MaxStarts]

HandleToggleVoiceNoteRecording(supported) ==
  LET h == Begin("toggle")
  IN Commit(IF ~h.connected THEN h
            ELSE IF h.recorder.active # 0 \/ h.recorder.chatRecording
            THEN stopVoiceNoteRecording(h)
            ELSE startVoiceNoteRecording(h, supported))

\* getUserMedia settles and startVoiceNoteRecording resumes; outcome is
\* "stream" (the recorder starts and is registered), "denied" (getUserMedia
\* rejects) or "throws" (the stream is acquired, MediaRecorder throws and the
\* stream is stopped)
GetUserMediaResponse(outcome) ==
  LET h == [Begin("start-response") EXCEPT !.last.ret = outcome,
                                           !.recorder.starts = @ - 1]
      stream == h.recorder.next
  IN /\ recorder.starts > 0
     /\ Commit(IF outcome = "stream"
               THEN [h EXCEPT !.recorder.next = @ + 1,
                              !.recorder.streams = @ \cup {stream},
                              !.recorder.active = stream,
                              !.recorder.chatRecording = TRUE,
                              !.ovf = @ \/ stream > MaxStreams]
               ELSE [h EXCEPT !.recorder.chatRecording = FALSE])

\* the recorder of a suspended stopVoiceNoteRecording stops; outcome is
\* "blob" (a recording, which is read next), "empty" (an empty recording) or
\* "error" (the recorder fails)
RecorderStopped(t, outcome) ==
  /\ t \in recorder.stops
  /\ t.phase = "blob"
  /\ LET h == [Begin("recorder-stopped") EXCEPT !.last.ret = outcome]
     IN Commit(IF outcome = "blob"
               THEN [h EXCEPT !.recorder.stops = (@ \ {t}) \cup {[t EXCEPT !.phase = "read"]}]
               ELSE stopVoiceNoteRecordingFinally(h, t))

\* readBlobAsDataUrl settles in a suspended stopVoiceNoteRecording: the
\* attachment is created, cached and its durable save is requested, and the
\* call ends unless it awaits the save
BlobRead(t, ok, now) ==
  /\ t \in recorder.stops
  /\ t.phase = "read"
  /\ LET h == [Begin("capture") EXCEPT !.last.att = ids.att,
                                       !.last.ret = IF ok THEN "read" ELSE "error"]
         id == h.ids.att
         ref == NewRef(h)
         h1 == Alloc(h, NewAttachment(id, "voice-note", "record"))
         h2 == [h1 EXCEPT !.ids.att = @ + 1, !.chatAttachments = Append(@, ref),
                          !.recorder.yielded = @ \cup {<<t.stream, id>>}]
         h3 == syncChatComposerLocalState(appendLocalVoiceNoteMessage(h2, ref, now))
         p == persistVoiceNoteAttachment(h3, ref, 0)
         h4 == [p.h EXCEPT !.last.retId = p.ret]
     IN IF ~ok THEN Commit(stopVoiceNoteRecordingFinally(h, t))
        ELSE /\ id <= MaxAtts
             /\ Commit(IF p.pending
                       THEN [h4 EXCEPT !.recorder.stops =
                               (@ \ {t}) \cup {[t EXCEPT !.phase = "save", !.obj = ref]}]
                       ELSE stopVoiceNoteRecordingFinally(h4, t))

\* the rest of the stopVoiceNoteRecording that awaited the save s, if any
stopVoiceNoteRecordingResume(h, s) ==
  LET waiting == {t \in h.recorder.stops : t.phase = "save" /\ t.obj = s.obj}
  IN IF s.owner # 0 \/ waiting = {} THEN h
     ELSE stopVoiceNoteRecordingFinally(h, CHOOSE t \in waiting : TRUE)

\* the response of a voice-notes.save request: the rest of
\* persistVoiceNoteAttachment and of the call chain that awaited it
SaveResponse(s, outcome) ==
  /\ s \in saves
  /\ LET h == [Begin("save-response") EXCEPT !.last.att = heap[s.obj].id,
                                             !.last.hadPid = heap[s.obj].pid,
                                             !.last.ret = outcome,
                                             !.last.task = s.owner]
         r == persistVoiceNoteAttachmentResume(h, s, outcome)
         h1 == [r.h EXCEPT !.last.retId = r.ret]
         t == CHOOSE u \in h1.tasks : u.tid = s.owner
         t1 == IF r.ret # 0 THEN [t EXCEPT !.pids[h.heap[s.obj].id] = r.ret] ELSE t
         others == [h1 EXCEPT !.tasks = @ \ {t}]
     IN Commit(
          IF s.owner <= 0 THEN stopVoiceNoteRecordingResume(h1, s)
          ELSE IF \E q \in h1.saves : q.owner = s.owner
          THEN [others EXCEPT !.tasks = @ \cup {t1}]
          ELSE sendChatMessageSend(others, t1))

HandleSendChat(messageOverride, restoreDraft) ==
  LET sent == IF messageOverride = NoOverride THEN chatAttachments ELSE <<>>
      h == [Begin("handleSendChat") EXCEPT
              !.last.text = Trim(IF messageOverride = NoOverride THEN chatMessage
                                 ELSE messageOverride),
              !.last.allPersisted =
                 /\ sent # <<>>
                 /\ \A i \in 1..Len(sent) :
                       isVoiceNoteAttachment(heap[sent[i]]) /\ heap[sent[i]].pid # 0]
  IN Commit(handleSendChat(h, messageOverride, restoreDraft))

\* the response of a chat.send request
SendResponse(t, ok) ==
  /\ t \in tasks
  /\ t.st = "sending"
  /\ Commit(sendTaskResume([Begin("send-response") EXCEPT
                               !.last.ret = IF ok THEN "ok" ELSE "reject",
                               !.last.retId = IF ok THEN t.runId ELSE 0,
                               !.last.task = t.tid],
                           t, ok))

FlushChatQueueForEvent ==
  Commit(flushChatQueue(Begin("flushChatQueue")))

RemoveQueuedMessage(id) ==
  /\ \E i \in 1..Len(chatQueue) : chatQueue[i].id = id
  /\ Commit(removeQueuedMessage(Begin("removeQueuedMessage"), id))

\* run ids an event may carry: none, one generated here, one of another client
ForeignRunId == MaxRuns + 1
EventRunIds == {0} \cup {r \in 1..MaxRuns : r < ids.run} \cup {ForeignRunId}

\* how the event relates to the controller: another session, the run of the
\* controller, another run while a run is active, or neither side bound
EventClass(payload) ==
  IF payload.sessionKey # sessionKey THEN "session"
  ELSE IF payload.runId # 0 /\ payload.runId = chatRunId THEN "own"
  ELSE IF payload.runId # 0 /\ chatRunId # 0 THEN "foreign"
  ELSE "unbound"

ChatEvent(payload) ==
  Commit(handleChatEvent([Begin("handleChatEvent") EXCEPT
                            !.last.evClass = EventClass(payload),
                            !.last.evState = payload.state,
                            !.last.evMessage = payload.message,
                            !.last.evText = extractText(payload),
                            !.last.evError = payload.errorMessage],
                         payload))

\* the gateway event handler of the application for a chat event:
\* handleChatEvent, and for a result "final", "error" or "aborted" the call
\* of flushChatQueueForEvent in the same macrotask
ChatEventAndFlush(payload) ==
  LET h == handleChatEvent([Begin("handleChatEvent") EXCEPT
                              !.last.evClass = EventClass(payload),
                              !.last.evState = payload.state,
                              !.last.evMessage = payload.message,
                              !.last.evText = extractText(payload),
                              !.last.head = IF chatQueue = <<>> THEN 0
                                            ELSE chatQueue[1].id],
                           payload)
  IN Commit(IF h.last.ret \in {"final", "error", "aborted"}
            THEN flushChatQueue(h) ELSE h)

\* handleChatEvent(state, undefined)
ChatEventNoPayload ==
  Commit([Begin("handleChatEvent") EXCEPT !.last.ret = "null",
                                          !.last.evClass = "missing"])

HandleAbortChat ==
  Commit(handleAbortChat(Begin("handleAbortChat")))

\* the cache entry of the session holds the draft and the attachments of the
\* composer, as syncChatComposerLocalState stores them
ComposerIsCached ==
  LET session == readLocalSessionState(store, sessionKey)
  IN /\ session.draft = chatMessage
     /\ session.attachments
          = [i \in 1..Len(chatAttachments) |-> toStoredChatAttachment(heap[chatAttachments[i]])]

\* the composer of a page whose last changes did not reach the cache
NotCached == <<NullText, <<>>>>

\* the page is loaded again: a new controller state over the same
\* localStorage; the requests of the page before are gone
Reload ==
  Commit([Begin("reload") EXCEPT
            !.connected = FALSE, !.chatMessage = "", !.chatAttachments = <<>>,
            !.chatMessages = <<>>, !.chatQueue = <<>>, !.chatRunId = 0,
            !.chatSending = FALSE, !.chatStream = NullText,
            !.chatStreamStartedAt = 0, !.chatLoading = FALSE, !.lastError = NullText,
            !.tasks = {}, !.saves = {}, !.loads = 0, !.aborts = 0,
            !.calc.composer =
               IF chatMessage = "" /\ chatAttachments = <<>>
               THEN calc.composer
               ELSE IF ~ComposerIsCached THEN NotCached
               ELSE <<chatMessage,
                      [i \in 1..Len(chatAttachments) |-> heap[chatAttachments[i]]]>>])

\* localStorage starts or stops throwing on reads, on writes or on both
StorageFault(r, w) ==
  /\ <<r, w>> # <<store.readOk, store.writeOk>>
  /\ Commit([Begin("storage") EXCEPT !.store.readOk = r, !.store.writeOk = w])

\* a call of the exported abortChatRun by the host
AbortChatRun ==
  Commit(abortChatRun(Begin("abortChatRun")))

\* the response of a chat.abort request
AbortResponse(ok) ==
  /\ aborts > 0
  /\ Commit([Begin("abort-response") EXCEPT
               !.aborts = @ - 1,
               !.lastError = IF ok THEN @ ELSE "request failed",
               !.last.ret = IF ok THEN "ok" ELSE "reject"])

LoadChatHistory ==
  Commit(loadChatHistory(Begin("loadChatHistory")))

\* the response of a chat.history request
HistoryResponse(ok, remoteMessages) ==
  /\ loads > 0
  /\ Commit(loadChatHistoryResume([Begin("history-response") EXCEPT
                                      !.last.ret = IF ok THEN "ok" ELSE "reject",
                                      !.calc.R = IF ok THEN remoteMessages ELSE <<>>],
                                  ok, remoteMessages))

----------------------------------------------------------------------------
(* Spec: the send path with voice notes: capture, upload, durable save,     *)
(* send, queue flush, and the final events that end a run                  *)

FinalEvents ==
  {Payload("main", r, "final", "none", NullText, NullText) : r \in EventRunIds \ {0}}

Next ==
  \/ SetConnected(TRUE)
  \/ AddAttachment("voice-note")
  \/ CaptureVoiceNote(ids.att)
  \/ \E s \in saves, o \in {"id", "noid", "reject"} : SaveResponse(s, o)
  \/ ids.sub <= MaxFewSubs /\ \E m \in {NoOverride, "hi"} : HandleSendChat(m, FALSE)
  \/ \E t \in tasks, ok \in BOOLEAN : SendResponse(t, ok)
  \/ FlushChatQueueForEvent
  \/ \E p \in FinalEvents : ChatEvent(p)

Spec == Init /\ [][Next]_vars

----------------------------------------------------------------------------
(* SpecRun: the run state machine: text sends, the queue, and push events   *)
(* of every state, run id and session                                      *)

RunEvents ==
  {Payload("main", r, "delta", m[1], m[2], NullText) :
     r \in EventRunIds, m \in {<<"none", NullText>>, <<"assistant", "He">>,
                               <<"assistant", "Hello">>}}
  \cup {Payload("main", r, "final", "none", NullText, NullText) : r \in EventRunIds}
  \cup {Payload("main", r, "aborted", m[1], m[2], NullText) :
          r \in EventRunIds, m \in {<<"none", NullText>>, <<"assistant", "He">>}}
  \cup {Payload("main", r, "error", "none", NullText, e) :
          r \in EventRunIds, e \in {NullText, "boom"}}
  \cup {Payload("other", r, "final", "none", NullText, NullText) :
          r \in {0, ForeignRunId}}

NextRun ==
  \/ \E b \in BOOLEAN : SetConnected(b)
  \/ ids.sub <= MaxFewSubs /\ HandleSendChat("hi", FALSE) /\ FewMessages
  \/ \E t \in tasks, ok \in BOOLEAN : SendResponse(t, ok) /\ FewMessages
  \/ FlushChatQueueForEvent /\ FewMessages
  \/ \E p \in RunEvents : ChatEvent(p) /\ FewMessages

SpecRun == InitObserved /\ [][NextRun]_vars

----------------------------------------------------------------------------
(* SpecMerge: mergeLocalVoiceNoteMessages as a function, applied once and    *)
(* then again to its own result, for every remote history and local list    *)

\* messages a local list may hold: voice-note messages of the cache, and a
\* message without marker
LocalMessages ==
  {buildLocalVoiceNoteMessage(NewAttachment(a, "voice-note", "record"), ts) :
     a \in 1..MaxAtts, ts \in 1..MaxTs} \cup {ServerMessage}

LocalLists == SeqsUpTo(LocalMessages, MaxLen)

hostVars ==
  <<sessionKey, connected, chatMessage, chatAttachments, chatMessages, chatQueue,
    chatRunId, chatSending, chatStream, chatStreamStartedAt, chatLoading, lastError,
    store, heap, tasks, saves, loads, aborts, ids, recorder, last>>

InitMerge ==
  /\ InitHost
  /\ last = Obs("init")
  /\ \E R \in RemoteHistories, L \in LocalLists : calc = [NoCalc EXCEPT !.R = R, !.L = L]

MergeOnce ==
  /\ calc.step = 0
  /\ calc' = [calc EXCEPT !.out = mergeLocalVoiceNoteMessages(calc.R, calc.L),
                          !.step = 1]
  /\ UNCHANGED hostVars

MergeAgain ==
  /\ calc.step = 1
  /\ calc' = [calc EXCEPT !.again = mergeLocalVoiceNoteMessages(calc.out, calc.L),
                          !.step = 2]
  /\ UNCHANGED hostVars

NextMerge ==
  \/ MergeOnce
  \/ MergeAgain

SpecMerge == InitMerge /\ [][NextMerge]_vars

----------------------------------------------------------------------------
(* SpecHistory: voice notes captured at any time of the clock, their durable *)
(* saves, and history loads answered with any remote history                *)

NextHistory ==
  \/ SetConnected(TRUE)
  \/ \E now \in 1..MaxTs : CaptureVoiceNote(now)
  \/ \E s \in saves, o \in {"id", "noid", "reject"} : SaveResponse(s, o)
  \/ LoadChatHistory
  \/ \E R \in RemoteHistories : HistoryResponse(TRUE, R)
  \/ HistoryResponse(FALSE, <<>>)

SpecHistory == InitObserved /\ [][NextHistory]_vars

----------------------------------------------------------------------------
(* SpecPersist: uploaded voice notes, calls of persistVoiceNoteAttachment    *)
(* with the connection open or closed, and sends of the composer            *)

NextPersist ==
  \/ \E b \in BOOLEAN : SetConnected(b)
  \/ AddAttachment("voice-note")
  \/ \E i \in 1..MaxAtts : PersistAttachment(i)
  \/ \E s \in saves, o \in {"id", "noid", "reject"} : SaveResponse(s, o)
  \/ ids.sub <= MaxFewSubs /\ HandleSendChat(NoOverride, FALSE)
  \/ \E t \in tasks, ok \in BOOLEAN : SendResponse(t, ok)

SpecPersist == InitObserved /\ [][NextPersist]_vars

----------------------------------------------------------------------------
(* SpecQueue: the send queue with text and image sends: drafts, sends that  *)
(* succeed or fail, and the final events of the gateway with the queue      *)
(* flush that the application runs for them; the host stays connected      *)

\* a chat.send request in flight is answered
QueueSendResponse ==
  \E t \in tasks, ok \in BOOLEAN : SendResponse(t, ok) /\ FewMessages

NextQueue ==
  \/ SetConnected(TRUE)
  \/ \E d \in {"hi", "He"} : SetChatDraft(d)
  \/ AddAttachment("image")
  \/ \E m \in {NoOverride, "ov"} : HandleSendChat(m, FALSE) /\ FewMessages
  \/ QueueSendResponse
  \/ \E p \in FinalEvents : ChatEventAndFlush(p) /\ FewMessages

SpecQueue == InitObserved /\ [][NextQueue]_vars

\* every chat.send request is answered: the gateway client resolves or rejects
\* each request
SpecQueueLive == SpecQueue /\ WF_vars(QueueSendResponse)

----------------------------------------------------------------------------
(* SpecFlush: the send queue with uploaded voice notes: sends that wait for *)
(* their durable saves, queue flushes, and sends that succeed or fail       *)

NextFlush ==
  \/ SetConnected(TRUE)
  \/ AddAttachment("voice-note")
  \/ \E m \in {NoOverride, "hi"} : HandleSendChat(m, FALSE)
  \/ \E s \in saves, o \in {"id", "reject"} : SaveResponse(s, o)
  \/ \E t \in tasks, ok \in BOOLEAN : SendResponse(t, ok)
  \/ \E p \in FinalEvents : ChatEventAndFlush(p)

SpecFlush == InitObserved /\ [][NextFlush]_vars

----------------------------------------------------------------------------
(* SpecEvents: push events of every state, run id and session, with every   *)
(* kind of message and error text, and events without payload              *)

EventMessages ==
  {<<"none", NullText>>, <<"assistant", " ">>, <<"assistant", "He">>,
   <<"malformed", "He">>}

EventSessions(key) ==
  {Payload(key, r, st, m[1], m[2], e) :
     r \in EventRunIds, st \in {"delta", "aborted"}, m \in EventMessages, e \in {NullText}}
  \cup {Payload(key, r, "final", "none", NullText, NullText) : r \in EventRunIds}
  \cup {Payload(key, r, "error", "none", NullText, e) :
          r \in EventRunIds, e \in {NullText, "", "boom"}}

NextEvents ==
  \/ SetConnected(TRUE)
  \/ ids.sub <= MaxFewSubs /\ HandleSendChat("hi", FALSE) /\ FewMessages
  \/ \E t \in tasks, ok \in BOOLEAN : SendResponse(t, ok) /\ FewMessages
  \/ \E p \in EventSessions("main") : ChatEvent(p) /\ FewMessages
  \/ \E p \in EventSessions("other") : ChatEvent(p)
  \/ ChatEventNoPayload

SpecEvents == InitObserved /\ [][NextEvents]_vars

----------------------------------------------------------------------------
(* SpecAbort: the run state machine with aborts: text sends, stop commands, *)
(* chat.abort requests that succeed or fail, and push events               *)

\* a delta and the terminal events of the session, with every run id and
\* with none
AbortEvents ==
  {Payload("main", r, "delta", "assistant", "He", NullText) : r \in EventRunIds}
  \cup {Payload("main", r, st, "none", NullText, NullText) :
          r \in EventRunIds, st \in {"final", "aborted", "error"}}

NextAbort ==
  \/ \E b \in BOOLEAN : SetConnected(b)
  \/ SetChatDraft("hi")
  \/ ids.sub <= MaxFewSubs /\ \E m \in {NoOverride, "stop"} : HandleSendChat(m, FALSE)
                             /\ FewMessages
  \/ \E t \in tasks, ok \in BOOLEAN : SendResponse(t, ok) /\ FewMessages
  \/ HandleAbortChat
  \/ AbortChatRun
  \/ \E ok \in BOOLEAN : AbortResponse(ok)
  \/ \E p \in AbortEvents : ChatEvent(p) /\ FewMessages

SpecAbort == InitObserved /\ [][NextAbort]_vars

----------------------------------------------------------------------------
(* SpecStorage: the cache operations over a localStorage that holds an item *)
(* of an earlier session of the application, of the current version, of     *)
(* another version or malformed, and that may throw on reads and on writes  *)

\* the id of the voice note that the item found at the start holds
StaleId == MaxAtts

\* the sessions of the item found at the start
StaleSessions ==
  [k \in SessionKeys |->
     IF k = "main"
     THEN [present |-> TRUE, draft |-> "Hi",
           attachments |-> <<[id |-> StaleId, kind |-> "voice-note",
                              source |-> "record", pid |-> 0]>>,
           voiceNotes |-> <<[id |-> StaleId, ts |-> 1,
                             attachment |-> [id |-> StaleId, kind |-> "voice-note",
                                             source |-> "record", pid |-> 0]]>>]
     ELSE IF k = "other"
     THEN [present |-> TRUE, draft |-> "He", attachments |-> <<>>, voiceNotes |-> <<>>]
     ELSE NoEntry]

StoreVersions == {0, LOCAL_CHAT_STATE_VERSION, LOCAL_CHAT_STATE_VERSION + 1}

InitStorage ==
  /\ InitMemory
  /\ last = Obs("init")
  /\ \E v \in StoreVersions, r \in BOOLEAN, w \in BOOLEAN :
        /\ store = [version |-> v, sessions |-> StaleSessions, readOk |-> r, writeOk |-> w]
        /\ calc = [NoCalc EXCEPT !.found = v]

NextStorage ==
  \/ SetConnected(TRUE)
  \/ \E r \in BOOLEAN, w \in BOOLEAN : StorageFault(r, w)
  \/ \E d \in {"", "hi"} : SetChatDraft(d)
  \/ ids.att < StaleId /\ CaptureVoiceNote(MaxTs)
  \/ \E s \in saves : SaveResponse(s, "id")
  \/ LoadChatHistory
  \/ \E R \in {<<>>, <<ServerMessage>>} : HistoryResponse(TRUE, R)

SpecStorage == InitStorage /\ [][NextStorage]_vars

----------------------------------------------------------------------------
(* SpecSubmit: submissions of the composer and of the host, with the         *)
(* connection open or closed: drafts, images and uploaded voice notes,      *)
(* sends with and without the restore-draft option, and push events          *)

\* the events of the run of the controller (without run id when it has none)
SubmitEvents ==
  {Payload("main", chatRunId, "delta", "assistant", "He", NullText)}
  \cup {Payload("main", chatRunId, st, "none", NullText, NullText) :
          st \in {"final", "aborted", "error"}}

NextSubmit ==
  \/ SetConnected(TRUE)
  \/ SetChatDraft("hi")
  \/ AddAttachment("voice-note")
  \/ ids.sub <= MaxFewSubs /\ HandleSendChat(NoOverride, FALSE) /\ FewMessages
  \/ ids.sub <= MaxFewSubs /\ HandleSendChat("ov", TRUE) /\ FewMessages
  \/ \E s \in saves : SaveResponse(s, "id") /\ FewMessages
  \/ \E t \in tasks, ok \in BOOLEAN : SendResponse(t, ok) /\ FewMessages
  \/ \E p \in SubmitEvents : ChatEvent(p) /\ FewMessages

SpecSubmit == InitObserved /\ [][NextSubmit]_vars

----------------------------------------------------------------------------
(* SpecRestore: the composer over page loads: drafts and attachments that   *)
(* the setters cache, the page loaded again, and history loads that         *)
(* succeed, fail or are not issued, with writes to localStorage that fail   *)

NextRestore ==
  \/ \E b \in BOOLEAN : SetConnected(b)
  \/ \E d \in {"hi", " "} : SetChatDraft(d)
  \/ \E kind \in {"image", "voice-note"} : AddAttachment(kind)
  \/ \E w \in BOOLEAN : StorageFault(TRUE, w)
  \/ Reload
  \/ LoadChatHistory
  \/ \E ok \in BOOLEAN : HistoryResponse(ok, IF ok THEN <<ServerMessage>> ELSE <<>>)

SpecRestore == InitObserved /\ [][NextRestore]_vars

----------------------------------------------------------------------------
(* SpecLimits: the cache operations at the limits of a session entry: the   *)
(* entry starts with a voice-note ring that is nearly full, composer lists  *)
(* of up to LOCAL_CHAT_ATTACHMENTS_LIMIT + MaxOver attachments are synced   *)
(* and notes are appended with timestamps below, inside and above the ring  *)

\* a ring of n notes captured one after the other: note i at time 2 * i
FilledRing(n) ==
  [i \in 1..n |-> [id |-> i, ts |-> 2 * i,
                   attachment |-> toStoredChatAttachment(
                                     NewAttachment(i, "voice-note", "record"))]]

RingFills == (LOCAL_CHAT_VOICE_NOTES_LIMIT - MaxOver)..LOCAL_CHAT_VOICE_NOTES_LIMIT

\* the lengths of the composer list: none, and around the limit
ComposerSizes ==
  {0} \cup ((LOCAL_CHAT_ATTACHMENTS_LIMIT - 1)..(LOCAL_CHAT_ATTACHMENTS_LIMIT + MaxOver))

\* the timestamps of an append: older than every note, between two notes, that
\* of a note of the ring, newer than every note
AppendTimes == {1, 41, 42, 2 * (LOCAL_CHAT_VOICE_NOTES_LIMIT + MaxAppends) + 1}

\* the id of the next note captured: none of the ring has it
NewNoteId == LOCAL_CHAT_VOICE_NOTES_LIMIT + calc.step + 1

limitsFrame ==
  <<sessionKey, connected, chatMessage, chatAttachments, chatMessages, chatQueue,
    chatRunId, chatSending, chatStream, chatStreamStartedAt, chatLoading, lastError,
    heap, tasks, saves, loads, aborts, ids, recorder>>

InitLimits ==
  /\ InitMemory
  /\ last = Obs("init")
  /\ \E n \in RingFills :
       store = [NoStore EXCEPT
                  !.version = LOCAL_CHAT_STATE_VERSION,
                  !.sessions["main"] = [EmptyEntry EXCEPT !.voiceNotes = FilledRing(n)]]
  /\ calc = NoCalc

\* syncChatComposerLocalState of a composer that holds n uploaded images
SyncComposerOf(n) ==
  LET h == [Begin("syncChatComposerLocalState") EXCEPT
              !.heap = [r \in 1..n |-> NewAttachment(r, "image", "upload")],
              !.chatAttachments = [i \in 1..n |-> i]]
  IN /\ store' = syncChatComposerLocalState(h).store
     /\ last' = h.last
     /\ calc' = [calc EXCEPT !.size = n]
     /\ UNCHANGED limitsFrame

\* appendLocalVoiceNoteMessage of the voice note with this id at this time
AppendToRing(id, timestamp) ==
  LET h == [Begin("appendLocalVoiceNoteMessage") EXCEPT
              !.heap[1] = NewAttachment(id, "voice-note", "record"),
              !.last.att = id]
  IN /\ calc.step < MaxAppends
     /\ store' = appendLocalVoiceNoteMessage(h, 1, timestamp).store
     /\ last' = h.last
     /\ calc' = [calc EXCEPT !.ts = timestamp, !.step = @ + 1,
                             !.ring = readLocalSessionState(store, sessionKey).voiceNotes]
     /\ UNCHANGED limitsFrame

NextLimits ==
  \/ \E n \in ComposerSizes : SyncComposerOf(n)
  \/ \E id \in {1, LOCAL_CHAT_VOICE_NOTES_LIMIT, NewNoteId}, t \in AppendTimes :
        AppendToRing(id, t)

SpecLimits == InitLimits /\ [][NextLimits]_vars

----------------------------------------------------------------------------
(* SpecNoSession: a controller whose session key is empty or white space,   *)
(* over a stored item that holds entries under the key of a session and     *)
(* under a key of white space                                               *)

BlankKeys == {"", " "}

\* the sessions of the item found at the start: the same entry under "main"
\* and under " "
BlankSessions ==
  [k \in SessionKeys |-> IF k \in {"main", " "} THEN StaleSessions["main"] ELSE NoEntry]

InitNoSession ==
  /\ \E k \in BlankKeys : InitMemoryOf(k)
  /\ last = Obs("init")
  /\ calc = NoCalc
  /\ \E S \in {NoSessions, BlankSessions} :
       store = [NoStore EXCEPT !.version = IF S = NoSessions THEN 0
                                          ELSE LOCAL_CHAT_STATE_VERSION,
                               !.sessions = S]

NextNoSession ==
  \/ SetConnected(TRUE)
  \/ \E d \in {"", "hi"} : SetChatDraft(d)
  \/ AddAttachment("image")
  \/ ids.att < StaleId /\ CaptureVoiceNote(MaxTs)
  \/ \E s \in saves : SaveResponse(s, "id")
  \/ LoadChatHistory
  \/ \E R \in {<<>>, <<ServerMessage>>} : HistoryResponse(TRUE, R)

SpecNoSession == InitNoSession /\ [][NextNoSession]_vars

----------------------------------------------------------------------------
(* SpecNotes: sends of voice notes that were recorded, and so have a local  *)
(* message in the history, and of voice notes that were uploaded, with and  *)
(* without text                                                             *)

NextNotes ==
  \/ SetConnected(TRUE)
  \/ SetChatDraft("hi")
  \/ AddAttachment("voice-note")
  \/ CaptureVoiceNote(1)
  \/ \E s \in saves, o \in {"id", "reject"} : SaveResponse(s, o) /\ FewMessages
  \/ ids.sub <= MaxFewSubs /\ HandleSendChat(NoOverride, FALSE) /\ FewMessages
  \/ \E t \in tasks : SendResponse(t, TRUE) /\ FewMessages

SpecNotes == InitObserved /\ [][NextNotes]_vars

----------------------------------------------------------------------------
(* SpecRecorder: toggles of the recorder in every interleaving with the     *)
(* settling of getUserMedia, of the recorder, of the read of the recording  *)
(* and of the durable save                                                  *)

NextRecorder ==
  \/ \E b \in BOOLEAN : SetConnected(b)
  \/ \E supported \in BOOLEAN : HandleToggleVoiceNoteRecording(supported)
  \/ \E outcome \in {"stream", "denied", "throws"} : GetUserMediaResponse(outcome)
  \/ \E t \in recorder.stops, outcome \in {"blob", "empty", "error"} :
        RecorderStopped(t, outcome)
  \/ \E t \in recorder.stops, ok \in BOOLEAN : BlobRead(t, ok, 1)
  \/ \E s \in saves, outcome \in {"id", "reject"} : SaveResponse(s, outcome)

SpecRecorder == InitObserved /\ [][NextRecorder]_vars

----------------------------------------------------------------------------
(* SpecDraft: the draft and its cached copy over page loads: drafts set and *)
(* cleared, sends that succeed, fail or are queued, aborts, history loads,  *)
(* and writes to localStorage that fail                                     *)

\* the final event of the run of the controller
DraftEvents == {Payload("main", chatRunId, "final", "none", NullText, NullText)}

NextDraft ==
  \/ SetConnected(TRUE)
  \/ \E d \in {"", "hi"} : SetChatDraft(d)
  \/ ids.sub <= MaxFewSubs /\ HandleSendChat(NoOverride, FALSE) /\ FewMessages
  \/ \E t \in tasks, ok \in BOOLEAN : SendResponse(t, ok) /\ FewMessages
  \/ HandleAbortChat
  \/ \E ok \in BOOLEAN : AbortResponse(ok)
  \/ \E p \in DraftEvents : ChatEventAndFlush(p) /\ FewMessages
  \/ LoadChatHistory
  \/ \E ok \in BOOLEAN : HistoryResponse(ok, <<>>)
  \/ \E w \in BOOLEAN : StorageFault(TRUE, w)
  \/ Reload

SpecDraft == InitObserved /\ [][NextDraft]_vars

----------------------------------------------------------------------------
(* SpecPrompt: the requests of a send as functions of the text and of the   *)
(* attachments handed to sendChatMessage                                   *)

PromptMessages == {<<>>, <<" ">>, <<" ", "a", " ">>}

\* voice notes with or without file name, transcript and transcript parts,
\* and an image
PromptAttachments ==
  {[id |-> 1, kind |-> "voice-note", fileName |-> f, transcript |-> t,
    transcriptParts |-> ps] :
     f \in {Absent, Given(<<"f">>)},
     t \in {Absent, Given(<<" ", "a", " ", "\n", " ", "b", " ">>)},
     ps \in {Absent, Given(<<<<" ">>>>),
             Given(<<<<" ", "a", " ">>, <<>>, <<"b", " ">>>>)}}
  \cup {[id |-> 2, kind |-> "image", fileName |-> Given(<<"g">>), transcript |-> Absent,
          transcriptParts |-> Absent]}

InitPrompt ==
  /\ InitHost
  /\ last = Obs("init")
  /\ \E message \in PromptMessages, attachments \in SeqsUpTo(PromptAttachments, MaxNotes) :
        calc = [step |-> 0, message |-> message, attachments |-> attachments,
                outbound |-> <<>>, api |-> <<>>, transcripts |-> <<>>]

\* the parameters of the requests are computed
BuildRequests ==
  /\ calc.step = 0
  /\ calc' = [calc EXCEPT
                !.step = 1,
                !.outbound = outboundMessage(calc.message, calc.attachments),
                !.api = apiAttachments(calc.attachments),
                !.transcripts = [i \in 1..Len(calc.attachments) |->
                                   saveTranscript(calc.attachments[i])]]
  /\ UNCHANGED hostVars

\* the computation starts again for the same send
ResetRequests ==
  /\ calc.step = 1
  /\ calc' = [calc EXCEPT !.step = 0, !.outbound = <<>>, !.api = <<>>,
                          !.transcripts = <<>>]
  /\ UNCHANGED hostVars

NextPrompt ==
  \/ BuildRequests
  \/ ResetRequests

SpecPrompt == InitPrompt /\ [][NextPrompt]_vars

----------------------------------------------------------------------------
(* Claims about the send path (Spec) *)

\* C1: a chat.send request is never issued while another chat.send request is
\* in flight or while a run is active (chatRunId non-null): whenever a step
\* issues a chat.send, chatRunId was null before the step and no chat.send
\* that was in flight before the step is still in flight after it.
C1_SendNeverIssuedWhileBusy ==
  [][\A u \in tasks' :
        (u.st = "sending" /\ u \notin tasks)
          => /\ chatRunId = 0
             /\ \A v \in tasks : v.st = "sending" => v \notin tasks']_vars

\* C2: for every attachment id at most one voice-notes.save request is issued.
C2_AtMostOneSavePerAttachment ==
  \A a \in 1..MaxAtts : calc.saveRequests[a] <= 1

\* C3: the persisted sessions map never contains an entry that has no draft,
\* no attachments and no voice notes.
C3_NoEmptyEntryPersisted ==
  \A k \in SessionKeys :
     store.sessions[k].present
       => \/ store.sessions[k].draft # ""
          \/ store.sessions[k].attachments # <<>>
          \/ store.sessions[k].voiceNotes # <<>>

\* the persisted ids an attachment id carries: in the attachment objects, in
\* the history message with its marker, in the cached voice-note ring
AttachmentPids(a) == {heap[r].pid : r \in {q \in 1..MaxObjs : heap[q].id = a}} \ {0}

MessagePids(a) ==
  UNION {{chatMessages[i].content[j].pid : j \in 1..Len(chatMessages[i].content)} :
           i \in {k \in 1..Len(chatMessages) : chatMessages[k].marker = a}} \ {0}

CachePids(a) ==
  UNION {{store.sessions[k].voiceNotes[i].attachment.pid :
            i \in {j \in 1..Len(store.sessions[k].voiceNotes) :
                     store.sessions[k].voiceNotes[j].id = a}} : k \in SessionKeys} \ {0}

\* C10: once the persistedNoteId of an attachment id is set to some value, no
\* later step changes it to a different value, in the attachment objects, in
\* the history message with its marker, or in the cached ring entry.
C10_PersistedIdNeverChanges ==
  [][\A a \in 1..MaxAtts :
        /\ AttachmentPids(a) # {} => AttachmentPids(a)' \subseteq AttachmentPids(a)
        /\ MessagePids(a) # {} => MessagePids(a)' \subseteq MessagePids(a)
        /\ CachePids(a) # {} => CachePids(a)' \subseteq CachePids(a)]_vars

----------------------------------------------------------------------------
(* Claims about the run state machine (SpecRun) *)

\* C4: when a run is active, handleChatEvent for an event of the current
\* session whose runId is set and differs from chatRunId leaves chatRunId,
\* chatStream, chatStreamStartedAt, chatMessages and lastError unchanged, and
\* returns "final" for a final event and null for delta, aborted and error.
C4_ForeignRunEventLeavesRun ==
  [][(last'.op = "handleChatEvent" /\ last'.evClass = "foreign")
       => /\ UNCHANGED <<chatRunId, chatStream, chatStreamStartedAt, chatMessages,
                         lastError>>
          /\ last'.ret = IF last'.evState = "final" THEN "final" ELSE "null"]_vars

\* a final event of another run was handled while a run was streaming
C4_ForeignFinalWhileStreaming ==
  /\ last.op = "handleChatEvent"
  /\ last.evClass = "foreign"
  /\ last.evState = "final"
  /\ last.ret = "final"
  /\ chatRunId # 0
  /\ chatStream = "Hello"

\* C5: after handleChatEvent handled a final, aborted or error event of the
\* controller's own run, chatRunId, chatStream and chatStreamStartedAt are
\* null and the value returned is the state of the event.
C5_OwnTerminalEventClearsRun ==
  (/\ last.op = "handleChatEvent"
   /\ last.evClass = "own"
   /\ last.evState \in {"final", "aborted", "error"})
    => /\ chatRunId = 0
       /\ chatStream = NullText
       /\ chatStreamStartedAt = 0
       /\ last.ret = last.evState

\* an error event of the own run was handled and left its message
C5_OwnErrorHandled ==
  /\ last.op = "handleChatEvent"
  /\ last.evClass = "own"
  /\ last.evState = "error"
  /\ last.ret = "error"
  /\ lastError = "boom"
  /\ chatRunId = 0

\* the length of the stream buffer; null counts as empty
StreamLen(stream) == IF stream = NullText THEN 0 ELSE TextLen(stream)

\* C6: on a delta event of the own run the stream buffer is replaced by the
\* new text only if the new text is at least as long as the buffer, so the
\* length of chatStream does not decrease on a delta event.
C6_DeltaNeverShortensStream ==
  [][(last'.op = "handleChatEvent" /\ last'.evClass = "own" /\ last'.evState = "delta")
       => /\ chatStream' # chatStream
               => /\ last'.evText # NullText
                  /\ chatStream' = last'.evText
                  /\ TextLen(last'.evText) >= StreamLen(chatStream)
          /\ StreamLen(chatStream') >= StreamLen(chatStream)]_vars

\* a shorter delta arrived after a longer one and the buffer was kept
C6_ShorterDeltaRefused ==
  /\ last.op = "handleChatEvent"
  /\ last.evClass = "own"
  /\ last.evState = "delta"
  /\ last.evText = "He"
  /\ chatStream = "Hello"

----------------------------------------------------------------------------
(* Claims about the history merge (SpecMerge, SpecHistory) *)

\* C7: the history merge is idempotent: merging the local list into the
\* result of a merge of the same list changes nothing.
C7_MergeIdempotent ==
  calc.step = 2 => calc.again = calc.out

\* both merges ran on a remote history that holds a marker, and the first
\* merge appended a local message
C7_MergedTwiceWithAppend ==
  /\ calc.step = 2
  /\ \E i \in 1..Len(calc.R) : calc.R[i].marker # 0
  /\ Len(calc.out) > Len(calc.R)

\* the cached voice-note ring of the session
CachedRing ==
  IF store.version = LOCAL_CHAT_STATE_VERSION /\ store.sessions[sessionKey].present
  THEN store.sessions[sessionKey].voiceNotes ELSE <<>>

\* the marker ids of the last remote history
RemoteMarkers == {calc.R[i].marker : i \in 1..Len(calc.R)} \ {0}

\* what follows the remote history in the loaded history
LoadedTail == SubSeq(chatMessages, Len(calc.R) + 1, Len(chatMessages))

\* C8: the history produced by loadChatHistory has the remote history as an
\* unmodified prefix, followed by exactly the cached voice-note messages whose
\* marker id does not occur in the remote history, each marker id once, in
\* ascending order of timestamp.
C8_LoadedHistoryIsRemoteThenLocal ==
  (last.op = "history-response" /\ last.ret = "ok")
    => /\ Len(chatMessages) >= Len(calc.R)
       /\ SubSeq(chatMessages, 1, Len(calc.R)) = calc.R
       /\ {LoadedTail[i].marker : i \in 1..Len(LoadedTail)}
            = {CachedRing[j].id : j \in 1..Len(CachedRing)} \ RemoteMarkers
       /\ \A i \in 1..Len(LoadedTail) :
             \E j \in 1..Len(CachedRing) :
                LoadedTail[i] =
                  Message("user",
                          <<[type |-> "voice_note", text |-> "",
                             data |-> CachedRing[j].id,
                             pid |-> CachedRing[j].attachment.pid, url |-> FALSE]>>,
                          CachedRing[j].id, CachedRing[j].ts)
       /\ \A i, j \in 1..Len(LoadedTail) :
             i < j => /\ LoadedTail[i].marker # LoadedTail[j].marker
                      /\ LoadedTail[i].ts <= LoadedTail[j].ts

\* a history was loaded whose remote part holds the marker of one cached
\* voice note, and another cached voice note was appended
C8_LoadedWithSkippedAndAppended ==
  /\ last.op = "history-response"
  /\ last.ret = "ok"
  /\ RemoteMarkers # {}
  /\ \E j \in 1..Len(CachedRing) : CachedRing[j].id \in RemoteMarkers
  /\ Len(LoadedTail) > 0

----------------------------------------------------------------------------
(* Claims about the attachment lifecycle (SpecPersist) *)

\* C9: persistVoiceNoteAttachment called on an attachment whose persistedNoteId
\* is set issues no voice-notes.save request and returns the existing id; a
\* send of attachments that all carry a persistedNoteId issues only chat.send.
C9_PersistedAttachmentNotSavedAgain ==
  /\ (last.op = "persist" /\ last.hadPid # 0)
       => /\ last.saves = 0
          /\ last.retId = last.hadPid
  /\ (last.op = "handleSendChat" /\ last.allPersisted)
       => last.saves = 0

----------------------------------------------------------------------------
(* Claims about the send queue (SpecQueue, SpecQueueLive) *)

\* a chat.send request of the call chain of submission x is in flight
SendIssued(x) == \E t \in tasks : t.tid = x /\ t.st = "sending"

\* C11: when the final event of the controller's run was handled, and the
\* queue flush was called for it, while a message waited at the head of the
\* queue, then that message is taken from the queue and its chat.send request
\* is issued, at once or later, with no action of the user.
C11_QueuedHeadSentAfterFinal ==
  \A x \in 1..MaxSubs :
     (/\ last.op = "handleChatEvent"
      /\ last.evClass = "own"
      /\ last.evState = "final"
      /\ last.head = x)
       ~> SendIssued(x)

\* C12: chat.send requests are issued in the order of submission: a step
\* that issues a chat.send leaves no message in the queue that was submitted
\* before the message sent.
C12_SendsInSubmissionOrder ==
  [][\A u \in tasks' :
        (u.st = "sending" /\ u \notin tasks)
          => \A i \in 1..Len(chatQueue') : chatQueue'[i].id > u.tid]_vars

\* the ids of queue items are handed out in the order of submission
InSubmissionOrder(queue) ==
  \A i, j \in 1..Len(queue) : i < j => queue[i].id < queue[j].id

\* C13: when the chat.send request of a send made by flushChatQueue rejects,
\* the item taken from the queue is put back at its head, before the items
\* the queue holds by then, and the queue is in the order of submission.
C13_FailedFlushPutsItemBack ==
  [][(last'.op = "send-response" /\ last'.ret = "reject")
       => \A t \in tasks \ tasks' :
             t.origin = "flush"
               => /\ chatQueue' = <<t.item>> \o chatQueue
                  /\ InSubmissionOrder(chatQueue')]_vars

\* the number of occurrences of a message in a history
Count(m, messages) == Cardinality({i \in 1..Len(messages) : messages[i] = m})

\* C14: when the chat.send request of a send started by handleSendChat from
\* the composer rejects, the draft and the attachment list are the ones of
\* before the send, and the user message appended for the send is taken out
\* of chatMessages.
C14_FailedSendRolledBack ==
  [][(last'.op = "send-response" /\ last'.ret = "reject")
       => \A t \in tasks \ tasks' :
             (t.origin = "user" /\ t.hasPrev)
               => LET bubble == Message("user", contentBlocksOf(Cur, t), 0, 0)
                  IN /\ chatMessage' = t.prevDraft
                     /\ chatAttachments' = t.prevAtts
                     /\ Count(bubble, chatMessages') < Count(bubble, chatMessages)]_vars

----------------------------------------------------------------------------
(* Claims about push events (SpecEvents) *)

\* the message handleChatEvent appends for an aborted event: the message of
\* the payload, or one made of the stream buffer, or none
AbortedAppend(message, text, stream) ==
  IF message = "assistant" THEN <<Message("assistant", <<TextBlock(text)>>, 0, 0)>>
  ELSE IF stream # NullText /\ Trim(stream) # ""
  THEN <<Message("assistant", <<TextBlock(stream)>>, 0, 0)>>
  ELSE <<>>

\* C15: on an aborted event of the own run, handleChatEvent appends to
\* chatMessages the message of the payload if it is an assistant message with
\* an array content; otherwise an assistant text message holding the stream
\* buffer if the buffer has text that is not whitespace; otherwise nothing.
\* The messages present before are kept in order.
C15_AbortedAppendsPartial ==
  [][(last'.op = "handleChatEvent" /\ last'.evClass = "own" /\ last'.evState = "aborted")
       => chatMessages' =
            chatMessages \o AbortedAppend(last'.evMessage, last'.evText, chatStream)]_vars

\* an aborted event of the own run carried an object that is no assistant
\* message, and the text streamed so far was appended after the user message
C15_AbortedFellBackToStream ==
  /\ last.op = "handleChatEvent"
  /\ last.evClass = "own"
  /\ last.evState = "aborted"
  /\ last.evMessage = "malformed"
  /\ chatMessages = <<Message("user", <<TextBlock("hi")>>, 0, 0),
                      Message("assistant", <<TextBlock("He")>>, 0, 0)>>

\* C16: on an error event of the own run, handleChatEvent sets lastError to
\* the errorMessage of the event, or to the default message when the event
\* has none, and leaves chatMessages unchanged.
C16_ErrorEventSetsLastError ==
  [][(last'.op = "handleChatEvent" /\ last'.evClass = "own" /\ last'.evState = "error")
       => /\ lastError' = IF last'.evError = NullText THEN "chat error"
                          ELSE last'.evError
          /\ chatMessages' = chatMessages]_vars

\* an error event of the own run without errorMessage was handled while the
\* user message of the run was in the history
C16_DefaultErrorReplacedOlder ==
  /\ last.op = "handleChatEvent"
  /\ last.evClass = "own"
  /\ last.evState = "error"
  /\ last.evError = NullText
  /\ lastError = "chat error"
  /\ Len(chatMessages) > 0

\* the state of the controller, without the observation
controllerVars ==
  <<sessionKey, connected, chatMessage, chatAttachments, chatMessages, chatQueue,
    chatRunId, chatSending, chatStream, chatStreamStartedAt, chatLoading, lastError,
    store, heap, tasks, saves, loads, aborts, ids, recorder, calc>>

\* C17: handleChatEvent for an event of another session, or without payload,
\* returns null and changes nothing of the controller, whatever the state
\* and the run id of the event.
C17_OtherSessionEventIgnored ==
  [][(last'.op = "handleChatEvent" /\ last'.evClass \in {"session", "missing"})
       => /\ last'.ret = "null"
          /\ UNCHANGED controllerVars]_vars

\* an aborted event of another session carried the id of the active run and
\* a message, while text was streamed
C17_OtherSessionAbortedWhileStreaming ==
  /\ last.op = "handleChatEvent"
  /\ last.evClass = "session"
  /\ last.evState = "aborted"
  /\ last.evMessage = "assistant"
  /\ last.ret = "null"
  /\ chatRunId # 0
  /\ chatStream = "He"

----------------------------------------------------------------------------
(* Claims about sends with voice notes (SpecFlush) *)

\* C18: when the voice-notes.save request of a send rejects, the send goes
\* on: once no save of the send is in flight, exactly one chat.send request
\* is issued, with a run id that sendChatMessage returns when the request
\* resolves, and the voice-note block for that attachment in the user message
\* appended carries no persistedNoteId.
C18_SendGoesOnAfterFailedSave ==
  [][/\ (/\ last'.op = "save-response"
         /\ last'.ret = "reject"
         /\ last'.task > 0
         /\ ~\E q \in saves' : q.owner = last'.task)
          => /\ last'.sends = 1
             /\ \E u \in tasks' : /\ u.tid = last'.task
                                  /\ u.st = "sending"
                                  /\ u.runId # 0
                                  /\ u.runId = chatRunId'
             /\ Len(chatMessages') = Len(chatMessages) + 1
             /\ LET m == chatMessages'[Len(chatMessages')]
                IN /\ m.role = "user"
                   /\ \E i \in 1..Len(m.content) :
                         m.content[i].type = "voice_note" /\ m.content[i].data = last'.att
                   /\ \A i \in 1..Len(m.content) :
                         (m.content[i].type = "voice_note" /\ m.content[i].data = last'.att)
                           => m.content[i].pid = 0
     /\ (last'.op = "send-response" /\ last'.ret = "ok") => last'.retId # 0]_vars

\* the save of a voice note sent from the composer was rejected, the chat.send
\* request of that send is in flight, and the user message holds its block
C18_SentAfterRejectedSave ==
  /\ last.op = "save-response"
  /\ last.ret = "reject"
  /\ last.task > 0
  /\ last.sends = 1
  /\ \E u \in tasks : u.tid = last.task /\ u.st = "sending" /\ u.runId = chatRunId
  /\ chatMessages # <<>>
  /\ chatMessages[Len(chatMessages)].content =
       <<[type |-> "voice_note", text |-> "", data |-> last.att, pid |-> 0, url |-> TRUE]>>

----------------------------------------------------------------------------
(* Claims about the outbound text (SpecPrompt) *)

\* the transcript as the claim states it: the parts trimmed, the empty ones
\* dropped, joined by newline
PartsTranscript(attachment) ==
  IF ~attachment.transcriptParts.has THEN <<>>
  ELSE Join(SelectSeq([i \in 1..Len(attachment.transcriptParts.value) |->
                         TrimText(attachment.transcriptParts.value[i])],
                      LAMBDA part : Len(part) > 0),
            <<"\n">>)

\* the text for one voice note as the claim states it
StatedEntry(attachment) ==
  IF PartsTranscript(attachment) = <<>>
  THEN <<"[">> \o attachment.fileName.value \o <<"]">>
  ELSE <<"[">> \o attachment.fileName.value
         \o <<" ", "t", "r", "a", "n", "s", "c", "r", "i", "p", "t", "]", "\n">>
         \o PartsTranscript(attachment)

\* the voice notes among the attachments of the send
SentVoiceNotes == SelectSeq(calc.attachments, LAMBDA a : a.kind = "voice-note")

\* what the claim states of the requests of a send
StatedRequests ==
  /\ \A i \in 1..Len(calc.attachments) :
        calc.attachments[i].kind = "voice-note"
          => calc.transcripts[i] = PartsTranscript(calc.attachments[i])
  /\ calc.outbound =
       TrimText(calc.message) \o <<"\n", "\n">>
         \o Join([i \in 1..Len(SentVoiceNotes) |-> StatedEntry(SentVoiceNotes[i])],
                 <<"\n", "\n">>)
  /\ \A i \in 1..Len(calc.api) :
        \A j \in 1..Len(calc.attachments) :
           calc.attachments[j].id = calc.api[i] => calc.attachments[j].kind # "voice-note"

\* C19, as stated: for every send with voice notes, the transcript saved and
\* sent is the transcript parts trimmed, empty parts dropped, joined by
\* newline; the chat.send message is the trimmed text, a blank line, and per
\* voice note "[<fileName> transcript]" and the transcript on the next line,
\* or "[<fileName>]" without transcript; no voice note is in the attachments
\* parameter.
C19_OutboundTextAsStated ==
  (calc.step = 1 /\ Len(SentVoiceNotes) > 0) => StatedRequests

\* C19, amended: the same for every send whose trimmed text is not empty and
\* whose voice notes each carry a file name and no transcript string of
\* their own.
C19_OutboundTextFromParts ==
  (/\ calc.step = 1
   /\ Len(SentVoiceNotes) > 0
   /\ TrimText(calc.message) # <<>>
   /\ \A i \in 1..Len(SentVoiceNotes) :
         /\ SentVoiceNotes[i].fileName.has
         /\ ~SentVoiceNotes[i].transcript.has)
    => StatedRequests

\* the requests of a send of a text, an image and a voice note with the parts
\* " a ", "" and "b " were computed
C19_SentPartsWithEmptyPart ==
  /\ calc.step = 1
  /\ calc.message = <<" ", "a", " ">>
  /\ Len(calc.attachments) = 2
  /\ calc.attachments[1].kind = "image"
  /\ calc.attachments[2].transcriptParts = Given(<<<<" ", "a", " ">>, <<>>, <<"b", " ">>>>)
  /\ calc.outbound = <<"a", "\n", "\n", "[", "f", " ", "t", "r", "a", "n", "s", "c", "r",
                       "i", "p", "t", "]", "\n", "a", "\n", "b">>
  /\ calc.api = <<2>>

----------------------------------------------------------------------------
(* Claims about the patching of a persisted note id (SpecHistory) *)

\* the attachments of the composer whose id is a
ComposerAttachments(a) ==
  {chatAttachments[i] : i \in {k \in 1..Len(chatAttachments) :
                                 heap[chatAttachments[k]].id = a}}

\* the voice-note content blocks of the history messages marked with a
MarkedVoiceBlocks(a) ==
  UNION {{chatMessages[i].content[j] :
            j \in {l \in 1..Len(chatMessages[i].content) :
                     chatMessages[i].content[l].type = "voice_note"}} :
           i \in {k \in 1..Len(chatMessages) : chatMessages[k].marker = a}}

\* the entries of the cached voice-note ring of the session whose id is a
RingEntries(a) ==
  {store.sessions[sessionKey].voiceNotes[i] :
     i \in {k \in 1..Len(store.sessions[sessionKey].voiceNotes) :
              store.sessions[sessionKey].voiceNotes[k].id = a}}

----------------------------------------------------------------------------
(* Claims about a durable save that fails (SpecHistory) *)

\* C21: when the durable save fails (the request rejects, or returns no id),
\* persistVoiceNoteAttachment leaves chatMessages, chatAttachments and the
\* cached session entry unchanged: the locally captured voice-note message
\* stays in the history and in the cache ring, with no persistedNoteId.
C21_FailedSaveKeepsLocalCopy ==
  [][\A a \in 1..MaxAtts :
        (/\ last'.op = "save-response" /\ last'.ret \in {"reject", "noid"}
         /\ last'.task <= 0 /\ last'.att = a)
          => /\ UNCHANGED <<chatMessages, chatAttachments, store>>
             /\ \A r \in Range(chatAttachments) : heap'[r] = heap[r]
             /\ MarkedVoiceBlocks(a)' # {}
             /\ \A b \in MarkedVoiceBlocks(a)' : b.pid = 0
             /\ RingEntries(a)' # {}
             /\ \A e \in RingEntries(a)' : e.attachment.pid = 0]_vars

\* C21 witness: the save of a captured voice note has just returned no id,
\* and the voice note is in the composer, in the history and in the ring
C21_SaveReturnedNoId ==
  /\ last.op = "save-response" /\ last.ret = "noid"
  /\ ComposerAttachments(last.att) # {}
  /\ MarkedVoiceBlocks(last.att) # {}
  /\ RingEntries(last.att) # {}

----------------------------------------------------------------------------
(* Claims about aborts (SpecAbort) *)

runVars == <<chatRunId, chatStream, chatStreamStartedAt>>

TerminalStates == {"final", "aborted", "error"}

\* a step of abortChatRun or handleAbortChat (called by the host or for a
\* stop command), or the response of a chat.abort request
AbortStep ==
  \/ last'.op \in {"abortChatRun", "handleAbortChat", "abort-response"}
  \/ last'.op = "handleSendChat" /\ last'.ret = "stop"

\* C22 as stated: abortChatRun and handleAbortChat never change chatRunId,
\* chatStream or chatStreamStartedAt, whether the chat.abort request succeeds
\* or fails; an active run is cleared only by a later own-run terminal event.
C22_RunClearedOnlyByOwnTerminalEvent ==
  [][/\ AbortStep => UNCHANGED runVars
     /\ (chatRunId # 0 /\ chatRunId' = 0)
          => /\ last'.op = "handleChatEvent"
             /\ last'.evClass = "own"
             /\ last'.evState \in TerminalStates]_vars

\* C22 amended: abortChatRun and handleAbortChat never change chatRunId,
\* chatStream or chatStreamStartedAt, whether the chat.abort request succeeds
\* or fails; an active run is cleared only by a later terminal event of the
\* session that carries the run id of the run or no run id, or by the
\* rejection of a chat.send request.
C22_AbortIsNotOptimistic ==
  [][/\ AbortStep => UNCHANGED runVars
     /\ (chatRunId # 0 /\ chatRunId' = 0)
          => \/ /\ last'.op = "handleChatEvent"
                /\ last'.evClass \in {"own", "unbound"}
                /\ last'.evState \in TerminalStates
             \/ last'.op = "send-response" /\ last'.ret = "reject"]_vars

\* C22 witness: a chat.abort request has just been rejected while the run it
\* was to abort is still active and streaming
C22_AbortRejectedRunStillActive ==
  /\ last.op = "abort-response" /\ last.ret = "reject"
  /\ chatRunId # 0
  /\ chatStream \notin {NullText, ""}
  /\ chatStreamStartedAt # 0
  /\ lastError = "request failed"

----------------------------------------------------------------------------
(* Claims about the persisted store (SpecStorage) *)

\* the item kept in localStorage
StoreItem == <<store.version, store.sessions>>

\* the composer: the draft and the attachments, by value
Composer == <<chatMessage, [i \in 1..Len(chatAttachments) |-> heap[chatAttachments[i]]]>>

\* the entry holds nothing of the item found at the start
StaleFree(entry) ==
  /\ entry.draft \notin {"Hi", "He"}
  /\ \A i \in 1..Len(entry.attachments) : entry.attachments[i].id # StaleId
  /\ \A i \in 1..Len(entry.voiceNotes) : entry.voiceNotes[i].id # StaleId

\* C23: when the persisted store has a version other than the current one (or
\* is not a well-formed store object), reads return absent for every session
\* key, and the next cache update writes a store that contains only the
\* updated session: no entry of the mismatching store is carried over.
C23_MismatchingStoreIsDiscarded ==
  [][store.version # LOCAL_CHAT_STATE_VERSION
       => /\ \A k \in SessionKeys : readLocalSessionState(store, k) = NoEntry
          /\ (last'.op = "history-response" /\ last'.ret = "ok")
               => Composer' = Composer /\ chatMessages' = calc'.R
          /\ StoreItem' # StoreItem
               => /\ store'.version = LOCAL_CHAT_STATE_VERSION
                  /\ \A k \in SessionKeys \ {sessionKey} : store'.sessions[k] = NoEntry
                  /\ StaleFree(store'.sessions[sessionKey])]_vars

\* C23 witness: the store found at the start had another version, and a
\* capture has replaced it by a store that holds the session of the capture
\* alone
C23_OtherVersionReplaced ==
  /\ calc.found = LOCAL_CHAT_STATE_VERSION + 1
  /\ last.op = "capture"
  /\ store.version = LOCAL_CHAT_STATE_VERSION
  /\ store.sessions["other"] = NoEntry
  /\ Len(store.sessions["main"].voiceNotes) = 1

\* the draft, the attachments by value and the history of a controller state
MemoryOf(h) ==
  <<h.chatMessage, [i \in 1..Len(h.chatAttachments) |-> h.heap[h.chatAttachments[i]]],
    h.chatMessages>>

\* the controller state over a backend that accepts writes
AsWritten(h) == [h EXCEPT !.store.writeOk = TRUE]

\* C24: storage failures are never fatal: when the storage backend throws on
\* read or write (or holds unparsable data), every cache operation (sync,
\* append voice note, persisted-id patch, restore) completes, reads yield
\* absent, and the in-memory draft, attachments and history are exactly what
\* they would be had the write succeeded.
C24_StorageFailuresAreNotFatal ==
  [][/\ (~store.readOk \/ store.version = 0)
          => /\ \A k \in SessionKeys : readLocalSessionState(store, k) = NoEntry
             /\ loadLocalVoiceNoteMessages(store, sessionKey) = <<>>
             /\ MemoryOf(restoreComposerStateFromLocalStorage(Cur)) = MemoryOf(Cur)
             /\ last'.op = "history-response"
                  => Composer' = Composer /\ chatMessages' = calc'.R
     /\ ~store.writeOk
          => /\ syncChatComposerLocalState(Cur).store = store
             /\ MemoryOf(syncChatComposerLocalState(Cur))
                  = MemoryOf(syncChatComposerLocalState(AsWritten(Cur)))
             /\ \A i \in 1..Len(chatAttachments), ts \in 1..MaxTs :
                  /\ appendLocalVoiceNoteMessage(Cur, chatAttachments[i], ts).store = store
                  /\ MemoryOf(appendLocalVoiceNoteMessage(Cur, chatAttachments[i], ts))
                       = MemoryOf(appendLocalVoiceNoteMessage(AsWritten(Cur),
                                                              chatAttachments[i], ts))
             /\ \A a \in 1..MaxAtts, p \in 1..MaxSaves :
                  /\ updateLocalVoiceNotePersistence(Cur, a, p).store = store
                  /\ MemoryOf(updateLocalVoiceNotePersistence(Cur, a, p))
                       = MemoryOf(updateLocalVoiceNotePersistence(AsWritten(Cur), a, p))
             /\ MemoryOf(restoreComposerStateFromLocalStorage(Cur))
                  = MemoryOf(restoreComposerStateFromLocalStorage(AsWritten(Cur)))
             /\ last'.op # "storage" => StoreItem' = StoreItem]_vars

\* C24 witness: the durable save of a captured voice note has just succeeded
\* over a backend that throws on writes: the attachment of the composer and
\* the message of the history carry the note id, the cached ring entry does
\* not
C24_PatchedInMemoryNotInCache ==
  /\ last.op = "save-response" /\ last.retId # 0
  /\ ~store.writeOk
  /\ ComposerAttachments(last.att) # {}
  /\ \A r \in ComposerAttachments(last.att) : heap[r].pid = last.retId
  /\ MarkedVoiceBlocks(last.att) # {}
  /\ \A b \in MarkedVoiceBlocks(last.att) : b.pid = last.retId
  /\ store.readOk /\ RingEntries(last.att) # {}
  /\ \A e \in RingEntries(last.att) : e.attachment.pid = 0

----------------------------------------------------------------------------
(* Claims about submissions (SpecSubmit) *)

\* handleSendChat was called with a message that is neither empty nor a stop
\* command
SubmittedText ==
  /\ last'.op = "handleSendChat"
  /\ last'.text \notin {"", NullText}
  /\ ~isChatStopCommand(last'.text)

\* exactly one item, with the text submitted, was appended to the tail of
\* chatQueue, and no request was issued
QueuedAtTail ==
  /\ Len(chatQueue') = Len(chatQueue) + 1
  /\ SubSeq(chatQueue', 1, Len(chatQueue)) = chatQueue
  /\ chatQueue'[Len(chatQueue')].text = last'.text
  /\ last'.sends = 0 /\ last'.saves = 0

\* C25 as stated: handleSendChat with a non-empty, non-stop message while the
\* controller is busy (chatSending true or chatRunId non-null) appends exactly
\* one item to the tail of chatQueue and issues no request; when the
\* controller is not busy it issues the send immediately and leaves chatQueue
\* unchanged.
C25_QueuedIfBusyElseSentAtOnce ==
  [][SubmittedText
       => IF chatSending \/ chatRunId # 0 THEN QueuedAtTail
          ELSE last'.sends = 1 /\ chatQueue' = chatQueue]_vars

\* C25 amended: on a connected host, handleSendChat with a non-empty, non-stop
\* message while the controller is busy appends exactly one item to the tail
\* of chatQueue and issues no request; when the controller is not busy it
\* starts the send at once, leaving chatQueue unchanged: the chat.send
\* request is issued in the same step, or, when voice notes of the message
\* have no persisted id, their voice-notes.save requests are, and chat.send
\* follows them.
C25_QueuedIfBusyElseSendStarted ==
  [][(SubmittedText /\ connected)
       => IF chatSending \/ chatRunId # 0 THEN QueuedAtTail
          ELSE /\ chatQueue' = chatQueue
               /\ \/ last'.sends = 1
                  \/ /\ last'.sends = 0 /\ last'.saves > 0
                     /\ \E t \in tasks' \ tasks : t.st = "persisting"]_vars

\* C25 witness: a message has just been queued behind a run that is active
\* after its chat.send was answered
C25_QueuedBehindActiveRun ==
  /\ last.op = "handleSendChat" /\ last.text = "hi"
  /\ connected /\ ~chatSending /\ chatRunId # 0
  /\ Len(chatQueue) = 1 /\ chatQueue[1].text = "hi"
  /\ last.sends = 0 /\ last.saves = 0

\* C26: optimistic state is never rolled back for delivered outcomes:
\* handleChatEvent (delta, final, aborted, error) never modifies the draft, the
\* attachment list or chatQueue, and a send whose chat.send request succeeded
\* never restores the pre-send draft or attachments unless the restore-draft
\* option was given.
C26_DeliveredOutcomeKeepsComposer ==
  [][/\ last'.op = "handleChatEvent"
          => Composer' = Composer /\ chatQueue' = chatQueue
     /\ \A t \in tasks :
          (/\ last'.op = "send-response" /\ last'.ret = "ok"
           /\ last'.task = t.tid /\ ~t.restore)
            => Composer' = Composer]_vars

\* C26 witness: the chat.send of a draft with a voice note has just
\* succeeded, and the composer is still empty
C26_SentDraftStaysCleared ==
  /\ last.op = "send-response" /\ last.ret = "ok"
  /\ chatMessage = "" /\ chatAttachments = <<>>
  /\ \E i \in 1..Len(chatMessages) :
        /\ chatMessages[i].role = "user"
        /\ Len(chatMessages[i].content) = 2
        /\ chatMessages[i].content[1] = TextBlock("hi")
        /\ chatMessages[i].content[2].type = "voice_note"

----------------------------------------------------------------------------
(* Claims about the capture of a voice note (SpecHistory) *)

\* the history holds a user message marked with a, and the cached ring of the
\* session holds an entry with id a
LocallyKept(a) ==
  /\ \E i \in 1..Len(chatMessages) :
        /\ chatMessages[i].marker = a
        /\ chatMessages[i].role = "user"
        /\ \E j \in 1..Len(chatMessages[i].content) :
              chatMessages[i].content[j].type = "voice_note"
  /\ RingEntries(a) # {}

----------------------------------------------------------------------------
(* Claims about the composer over page loads (SpecRestore) *)

\* the composer that the cache gives back: the draft, and the attachments
\* without their preview URL
Restored(composer) ==
  <<composer[1], [i \in 1..Len(composer[2]) |-> [composer[2][i] EXCEPT !.preview = FALSE]]>>

\* loadChatHistory leaves a draft and a list of attachments that are not empty
KeepsWhatIsTyped ==
  /\ chatMessage # "" => chatMessage' = chatMessage
  /\ chatAttachments # <<>> => Composer'[2] = Composer[2]

\* a call of loadChatHistory ends: with the response, or at once
LoadEnds ==
  \/ last'.op = "history-response"
  \/ last'.op = "loadChatHistory" /\ loads' = loads

\* C28 as stated: composer state round-trips through the cache: after
\* syncChatComposerLocalState stored a draft and attachments and the in-memory
\* composer was emptied, loadChatHistory restores the same draft and the same
\* attachments (id, mimeType, dataUrl); loadChatHistory never overwrites a
\* non-empty in-memory draft or a non-empty in-memory attachment list.
C28_EveryLoadRestoresComposer ==
  [][LoadEnds
       => /\ Composer = <<"", <<>>>> /\ calc.composer # NotCached
               => Composer' = Restored(calc.composer)
          /\ KeepsWhatIsTyped]_vars

\* C28 amended: after syncChatComposerLocalState stored a draft and
\* attachments and the in-memory composer was emptied, a loadChatHistory whose
\* chat.history request succeeds restores the same draft and the same
\* attachments (id, mimeType, dataUrl, without the preview URL); a
\* loadChatHistory that is not connected or whose request fails restores
\* nothing; loadChatHistory never overwrites a non-empty in-memory draft or a
\* non-empty in-memory attachment list.
C28_SuccessfulLoadRestoresComposer ==
  [][LoadEnds
       => /\ Composer = <<"", <<>>>> /\ calc.composer # NotCached
               => Composer' = IF last'.op = "history-response" /\ last'.ret = "ok"
                              THEN Restored(calc.composer) ELSE Composer
          /\ KeepsWhatIsTyped]_vars

\* C28 witness: a draft and two attachments were cached, the page was loaded
\* again, and a history load has just restored them
C28_DraftAndAttachmentsRestored ==
  /\ last.op = "history-response" /\ last.ret = "ok"
  /\ calc.composer[1] = "hi" /\ Len(calc.composer[2]) = 2
  /\ Composer = Restored(calc.composer)
  /\ Composer # calc.composer

----------------------------------------------------------------------------
(* Claims about the end of sendChatMessage *)

\* the call chain that the response resumes
Resumed == {t \in tasks : t.st = "sending" /\ t.tid = last'.task}

\* C29: when the chat.send request rejects, sendChatMessage returns null and
\* leaves the run state idle: chatRunId, chatStream and chatStreamStartedAt
\* are null, lastError holds the error and chatSending is false; chatSending
\* is also false when a successful send settles, and stays false to the end
\* of the step unless the queue is flushed into a new request.
C29_RejectedSendLeavesIdle ==
  [][last'.op = "send-response"
       => /\ last'.ret = "reject"
               => /\ last'.retId = 0
                  /\ chatRunId' = 0
                  /\ chatStream' = NullText
                  /\ chatStreamStartedAt' = 0
                  /\ lastError' # NullText
                  /\ ~chatSending'
          /\ last'.ret = "ok"
               => /\ \A t \in Resumed : ~sendChatMessageResume(Cur, t, TRUE).chatSending
                  /\ last'.sends = 0 => ~chatSending']_vars

\* C29 witness: a chat.send request was rejected while a message waited in
\* the queue: the controller is idle, holds the error and shows it as its
\* last message
C29_RejectedSendIsIdle ==
  /\ last.op = "send-response" /\ last.ret = "reject" /\ last.retId = 0
  /\ chatRunId = 0 /\ chatStream = NullText /\ chatStreamStartedAt = 0
  /\ ~chatSending /\ lastError = "request failed"
  /\ Len(chatQueue) > 0
  /\ chatMessages[Len(chatMessages)].role = "assistant"

\* the chat.send requests that the step issues, with their idempotencyKey
Issued == {t \in tasks' \ tasks : t.st = "sending"}

\* C30: the run id is bound before the request: at the moment every chat.send
\* request is issued, chatRunId is non-null and equal to the idempotencyKey
\* of the request, and the value returned by a successful sendChatMessage is
\* that same id.
C30_RunIdBoundBeforeRequest ==
  [][/\ \A t \in Issued : t.runId # 0 /\ chatRunId' = t.runId
     /\ last'.sends = Cardinality(Issued)
     /\ last'.op = "send-response" /\ last'.ret = "ok"
          => \A t \in Resumed : last'.retId = t.runId /\ t.runId # 0]_vars

\* C30 witness: a successful send returned its run id after its run had
\* ended, and the request of the queued message that the same step issued
\* has its own id, which chatRunId holds
C30_SecondRequestBoundToItsOwnId ==
  /\ last.op = "send-response" /\ last.ret = "ok" /\ last.retId # 0
  /\ last.sends = 1
  /\ \E t \in tasks : /\ t.st = "sending"
                      /\ t.runId = chatRunId
                      /\ t.runId # last.retId

----------------------------------------------------------------------------
(* Claims about the limits of the cache (SpecLimits) *)

CachedEntry == readLocalSessionState(store, sessionKey)

\* the ids of the stored attachments of the entry, in order
CachedAttachmentIds ==
  [i \in 1..Len(CachedEntry.attachments) |-> CachedEntry.attachments[i].id]

\* the notes that the append had to choose from: the ring before it without
\* the note of the same id, and the note appended
Candidates ==
  {e \in Range(calc'.ring) : e.id # last'.att}
    \cup {[id |-> last'.att, ts |-> calc'.ts,
           attachment |-> toStoredChatAttachment(
                             NewAttachment(last'.att, "voice-note", "record"))]}

\* C31: the local cache is size-bounded after any sequence of operations: a
\* session entry holds at most 8 attachments (the last 8 of the list of the
\* composer) and at most 40 voice notes (those with the greatest timestamps).
C31_CacheIsSizeBounded ==
  [][/\ \A k \in SessionKeys :
          /\ Len(store'.sessions[k].attachments) <= 8
          /\ Len(store'.sessions[k].voiceNotes) <= 40
     /\ last'.op = "syncChatComposerLocalState"
          => CachedAttachmentIds'
               = [i \in 1..(IF calc'.size <= 8 THEN calc'.size ELSE 8) |->
                    i + (IF calc'.size <= 8 THEN 0 ELSE calc'.size - 8)]
     /\ last'.op = "appendLocalVoiceNoteMessage"
          => /\ Range(CachedEntry'.voiceNotes) \subseteq Candidates
             /\ Len(CachedEntry'.voiceNotes)
                  = (IF Cardinality(Candidates) <= 40 THEN Cardinality(Candidates) ELSE 40)
             /\ \A e \in Candidates \ Range(CachedEntry'.voiceNotes),
                   f \in Range(CachedEntry'.voiceNotes) : e.ts <= f.ts]_vars

\* C31 witness: ten attachments were synced and a note was appended to a full
\* ring: the entry holds the last eight attachments and forty notes, and the
\* oldest note of the ring before is gone
C31_BothLimitsReached ==
  /\ last.op = "appendLocalVoiceNoteMessage"
  /\ calc.size = 10
  /\ CachedAttachmentIds = <<3, 4, 5, 6, 7, 8, 9, 10>>
  /\ Len(calc.ring) = 40
  /\ Len(CachedEntry.voiceNotes) = 40
  /\ \E i \in 1..Len(CachedEntry.voiceNotes) : CachedEntry.voiceNotes[i].id = last.att
  /\ \A i \in 1..Len(CachedEntry.voiceNotes) : CachedEntry.voiceNotes[i].id # calc.ring[1].id

----------------------------------------------------------------------------
(* Claims about a session key that names no session (SpecNoSession) *)

\* C32: an empty or whitespace-only session key is treated as no session:
\* every cache update under such a key leaves the persisted store unchanged
\* and every cache read under it returns absent, so that a history load merges
\* no local voice note and restores no composer.
C32_BlankKeyIsNoSession ==
  [][Trim(sessionKey) = ""
       => /\ store' = store
          /\ readLocalSessionState(store, sessionKey) = NoEntry
          /\ loadLocalVoiceNoteMessages(store, sessionKey) = <<>>
          /\ last'.op = "history-response"
               => /\ Composer' = Composer
                  /\ \A i \in 1..Len(chatMessages') : chatMessages'[i].marker = 0]_vars

\* C32 witness: under the key of white space, with an entry stored under that
\* very key, a voice note was captured and saved and a history was loaded:
\* the store is as it was found and nothing of the entry was read
C32_EntryUnderBlankKeyUntouched ==
  /\ sessionKey = " "
  /\ store.sessions[" "] = StaleSessions["main"]
  /\ last.op = "history-response"
  /\ chatMessage = ""
  /\ \E i \in 1..Len(chatAttachments) : heap[chatAttachments[i]].pid # 0

----------------------------------------------------------------------------
(* Claims about the stream buffer of an idle controller (SpecEvents) *)

\* no run is active: chatRunId is null and no send is in flight
Idle == chatRunId = 0 /\ ~chatSending /\ tasks = {}

\* C33 as stated: in every reachable state, whenever no run is active
\* (chatRunId is null and no send is in flight) the stream buffer chatStream
\* and chatStreamStartedAt are null; in particular an event that arrives after
\* the terminal event of the run does not leave a stream buffer behind.
C33_NoStreamWithoutRun ==
  Idle => (chatStream = NullText /\ chatStreamStartedAt = 0)

\* C33 amended: whenever no run is active chatStreamStartedAt is null, and
\* chatStream is null unless a delta event of the session was handled while
\* no run id was bound: such a delta, one that arrives after the terminal
\* event of the run included, sets the stream buffer, and the buffer stays
\* until a terminal event of the session or a send; every terminal event that
\* is handled and every rejected send leave both null.
C33_StreamWithoutRunOnlyFromDelta ==
  [][/\ Idle' => chatStreamStartedAt' = 0
     /\ (chatRunId' = 0 /\ chatStream' # NullText)
          => \/ chatRunId = 0 /\ chatStream' = chatStream
             \/ /\ last'.op = "handleChatEvent" /\ last'.evState = "delta"
                /\ last'.evClass = "unbound"
                /\ chatStream' = last'.evText
     /\ \/ /\ last'.op = "handleChatEvent"
           /\ last'.evState \in {"final", "aborted", "error"}
           /\ last'.evClass \in {"own", "unbound"}
        \/ last'.op = "send-response" /\ last'.ret = "reject"
        => chatStream' = NullText /\ chatStreamStartedAt' = 0]_vars

\* C33 witness: the run of a sent message has ended and a delta that arrived
\* afterwards has left its text in the stream buffer of the idle controller
C33_LateDeltaLeavesStream ==
  /\ Idle
  /\ last.op = "handleChatEvent" /\ last.evState = "delta"
  /\ chatStream = "He" /\ chatStreamStartedAt = 0
  /\ ids.run > 1
  /\ Len(chatMessages) > 0

----------------------------------------------------------------------------
(* Claims about the marked messages of chatMessages *)

\* the positions of the messages that carry the marker of this attachment id
MarkedAt(messages, a) ==
  {i \in 1..Len(messages) : getLocalVoiceNoteMarkerId(messages[i]) = a}

\* no two messages of the list carry the same marker
DistinctMarkers(messages) ==
  \A a \in 1..MaxAtts : Cardinality(MarkedAt(messages, a)) <= 1

\* C34: for every attachment id, chatMessages contains at most one message
\* that carries the local-voice-note marker with that id, after any sequence
\* of appendLocalVoiceNoteMessage, persisted-id patches, sends and history
\* loads, given a remote history without duplicate markers: a load of such a
\* history leaves no duplicate, and no other operation adds one. (It holds in
\* Spec and SpecSubmit as well, where messages are sent.)
C34_OneMarkedMessagePerId ==
  [][IF last'.op = "history-response" /\ last'.ret = "ok"
     THEN DistinctMarkers(calc'.R) => DistinctMarkers(chatMessages')
     ELSE DistinctMarkers(chatMessages) => DistinctMarkers(chatMessages')]_vars

\* C34 witness: two notes were captured and the remote history echoed one of
\* them: the loaded list holds the echo and the local message of the other
\* note, each once
C34_EchoedAndLocalNoteOnce ==
  /\ last.op = "history-response" /\ last.ret = "ok"
  /\ Cardinality(Markers(calc.R)) = 1
  /\ Cardinality(Markers(chatMessages)) = 2
  /\ DistinctMarkers(chatMessages)
  /\ Len(chatMessages) = Len(calc.R) + 1

----------------------------------------------------------------------------
(* Claims about the voice-note ring after an append (SpecLimits) *)

\* the positions of the ring that hold the note of this id
RingAt(ring, id) == {i \in 1..Len(ring) : ring[i].id = id}

\* C35: after every appendLocalVoiceNoteMessage, the cached voice-note ring of
\* the session has pairwise distinct ids and is sorted by ascending
\* timestamp; appending an id that the ring holds replaces its entry and adds
\* no second one: the ring keeps its length and the entry has the new
\* timestamp.
C35_RingDistinctAndSorted ==
  [][last'.op = "appendLocalVoiceNoteMessage"
       => \A ring \in {CachedEntry'.voiceNotes} :
             /\ \A i, j \in 1..Len(ring) : ring[i].id = ring[j].id => i = j
             /\ \A i \in 1..(Len(ring) - 1) : ring[i].ts <= ring[i + 1].ts
             /\ \A i \in RingAt(ring, last'.att) : ring[i].ts = calc'.ts
             /\ RingAt(calc'.ring, last'.att) # {}
                  => /\ Len(ring) = Len(calc'.ring)
                     /\ Cardinality(RingAt(ring, last'.att)) = 1]_vars

\* C35 witness: the newest note of a full ring was appended again with the
\* oldest timestamp: it is the first entry now, and the ring is as long as it
\* was
C35_ReappendedNoteMovedToFront ==
  /\ last.op = "appendLocalVoiceNoteMessage"
  /\ last.att = LOCAL_CHAT_VOICE_NOTES_LIMIT
  /\ Len(calc.ring) = LOCAL_CHAT_VOICE_NOTES_LIMIT
  /\ calc.ring[Len(calc.ring)].id = last.att
  /\ Len(CachedEntry.voiceNotes) = LOCAL_CHAT_VOICE_NOTES_LIMIT
  /\ CachedEntry.voiceNotes[1].id = last.att
  /\ CachedEntry.voiceNotes[1].ts = 1

----------------------------------------------------------------------------
(* Claims about the frame of the cache updates (SpecStorage) *)

\* the stored item is a store of the current version
ItemIsCurrent == store.version = LOCAL_CHAT_STATE_VERSION

\* the step leaves the entries that the item holds under the other keys
OtherEntriesKept ==
  \A k \in SessionKeys \ {sessionKey} : store'.sessions[k] = store.sessions[k]

\* syncChatComposerLocalState leaves the ring of the entry, and
\* appendLocalVoiceNoteMessage its draft and its attachments
RingAndComposerFramed ==
  /\ last'.op = "setChatDraft"
       => readLocalSessionState(store', sessionKey).voiceNotes
            = readLocalSessionState(store, sessionKey).voiceNotes
  /\ \A d \in {"", "hi", "He"} :
       readLocalSessionState(
           syncChatComposerLocalState([Cur EXCEPT !.chatMessage = d]).store,
           sessionKey).voiceNotes
         = readLocalSessionState(store, sessionKey).voiceNotes
  /\ \A i \in 1..Len(chatAttachments), ts \in 1..MaxTs :
       \A after \in {readLocalSessionState(
                       appendLocalVoiceNoteMessage(Cur, chatAttachments[i], ts).store,
                       sessionKey)} :
          /\ after.draft = readLocalSessionState(store, sessionKey).draft
          /\ after.attachments = readLocalSessionState(store, sessionKey).attachments

\* C36 as stated: cache updates are framed: an update under one session key
\* never changes the entry of another session key; syncChatComposerLocalState
\* never changes the voice-note ring of the entry;
\* appendLocalVoiceNoteMessage never changes the draft or the attachments of
\* the entry.
C36_EveryUpdateIsFramed ==
  [][/\ (last'.op # "storage" /\ ItemIsCurrent) => OtherEntriesKept
     /\ RingAndComposerFramed]_vars

\* C36 amended: an update under one session key never changes the entry of
\* another session key of a stored item that it can read; an update that
\* cannot read the item (the read throws, or the item has another version)
\* and can write replaces it by a store that holds the updated session alone.
\* syncChatComposerLocalState never changes the voice-note ring of the entry;
\* appendLocalVoiceNoteMessage never changes the draft or the attachments of
\* the entry.
C36_UpdateOfReadableItemIsFramed ==
  [][/\ (last'.op # "storage" /\ ItemIsCurrent /\ store.readOk) => OtherEntriesKept
     /\ (last'.op # "storage" /\ ~(ItemIsCurrent /\ store.readOk) /\ store' # store)
          => /\ store'.version = LOCAL_CHAT_STATE_VERSION
             /\ \A k \in SessionKeys \ {sessionKey} : store'.sessions[k] = NoEntry
     /\ RingAndComposerFramed]_vars

\* C36 witness: a draft was stored under "main" next to a voice note of the
\* ring, and the entry of "other" is the one found at the start
C36_OtherEntryAndRingKept ==
  /\ last.op = "setChatDraft"
  /\ store.version = LOCAL_CHAT_STATE_VERSION /\ store.readOk
  /\ calc.found = LOCAL_CHAT_STATE_VERSION
  /\ store.sessions["main"].draft = "hi"
  /\ Len(store.sessions["main"].voiceNotes) = 2
  /\ store.sessions["other"] = StaleSessions["other"]

----------------------------------------------------------------------------
(* Claims about the user message of a send with voice notes (SpecNotes) *)

\* the ids of the voice-note blocks of a message
VoiceBlockIds(message) ==
  {message.content[i].data :
     i \in {j \in 1..Len(message.content) : message.content[j].type = "voice_note"}}

\* the ids of the attachments of a send
AttachmentIdsOf(t) == {heap'[t.atts[i]].id : i \in 1..Len(t.atts)}

\* the step appended a user message that carries no marker
AppendedUserMessage ==
  /\ Len(chatMessages') = Len(chatMessages) + 1
  /\ chatMessages'[Len(chatMessages')].role = "user"
  /\ getLocalVoiceNoteMarkerId(chatMessages'[Len(chatMessages')]) = 0

\* C37: sendChatMessage does not duplicate a voice note in the history: a
\* voice-note attachment that already has a locally marked message in
\* chatMessages contributes no content block to the appended user message
\* (an attachment without such a message contributes one), and when the text
\* is empty and every voice note has such a message, no user message is
\* appended while the chat.send request is still issued.
C37_NoSecondBubbleForLocalNote ==
  [][\A t \in Issued :
        \A local \in {{a \in AttachmentIdsOf(t) : MarkedAt(chatMessages', a) # {}}} :
           IF Trim(t.msg) = "" /\ local = AttachmentIdsOf(t)
           THEN Len(chatMessages') = Len(chatMessages) /\ last'.sends = 1
           ELSE /\ AppendedUserMessage
                /\ VoiceBlockIds(chatMessages'[Len(chatMessages')])
                     = AttachmentIdsOf(t) \ local]_vars

\* C37 witness: a recorded and an uploaded voice note were sent without text:
\* the request was issued and the appended user message holds the block of
\* the uploaded note alone, after the local message of the recorded one
C37_OnlyUploadedNoteInBubble ==
  /\ last.sends = 1
  /\ \E t \in tasks :
       /\ t.st = "sending" /\ t.msg = ""
       /\ Len(t.atts) = 2
       /\ \E i, j \in 1..2 :
            /\ MarkedAt(chatMessages, heap[t.atts[i]].id) # {}
            /\ MarkedAt(chatMessages, heap[t.atts[j]].id) = {}
            /\ VoiceBlockIds(chatMessages[Len(chatMessages)]) = {heap[t.atts[j]].id}

----------------------------------------------------------------------------
(* Claims about the user messages of the submissions (SpecQueue) *)

\* the positions of the user messages of chatMessages
UserBubbles == {i \in 1..Len(chatMessages) : chatMessages[i].role = "user"}

\* C38: each submitted message appears at most once as a user bubble in
\* chatMessages, over any sequence of sends, failed flushes and retries of
\* the same queued item: there are never more user bubbles than messages
\* submitted.
C38_OneBubblePerSubmission ==
  Cardinality(UserBubbles) <= ids.sub - 1

\* the recorders that hold a running stream: the registered one and those a
\* suspended stopVoiceNoteRecording will stop
HeldStreams == {recorder.active} \cup {t.stream : t \in recorder.stops}

\* a call of stopVoiceNoteRecording that was suspended ends in this step
StopSettles(t) == t \in recorder.stops /\ \A u \in recorder.stops' : u.stream # t.stream

\* C39, the parts on one stop: a recording yields at most one attachment, a
\* toggle while the registered recorder is stopping changes nothing, and when
\* a stopVoiceNoteRecording ends chatRecording is false, no recorder is
\* registered and the stream of its recorder is stopped.
C39_StopIsCleanAndSingle ==
  [][/\ \A x \in recorder'.yielded, y \in recorder'.yielded : x[1] = y[1] => x = y
     /\ (last'.op = "toggle" /\ recorder.active \in recorder.stopping)
          => recorder' = recorder /\ chatAttachments' = chatAttachments
     /\ \A t \in recorder.stops :
          StopSettles(t) => /\ ~recorder'.chatRecording
                            /\ recorder'.active = 0
                            /\ t.stream \notin recorder'.streams]_vars

\* C39: one recording yields at most one attachment, and no interleaving of
\* toggles leaves an acquired media stream running without a registered
\* recorder: every running stream is the stream of the registered recorder or
\* of a recorder that a stopVoiceNoteRecording in progress will stop.
C39_NoStreamWithoutRecorder ==
  /\ \A x \in recorder.yielded, y \in recorder.yielded : x[1] = y[1] => x = y
  /\ recorder.streams \subseteq HeldStreams

\* the draft that the cache holds for the current session ("" for none)
CachedDraft == readLocalSessionState(store, sessionKey).draft

DraftIsCached == CachedDraft = chatMessage

\* no call of the controller is suspended at a request
NothingSuspended == tasks = {} /\ saves = {} /\ loads = 0 /\ aborts = 0

\* C40 as stated: whenever no operation of the controller is suspended and
\* localStorage accepts writes, the cached draft of the current session is
\* the draft in memory (none when the draft is empty).
C40_DraftAlwaysCached ==
  (NothingSuspended /\ store.writeOk) => DraftIsCached

\* C40, amended: while localStorage accepts writes, every operation but the
\* load of the page keeps the cached draft equal to the draft in memory,
\* setChatDraft makes them equal, and so does a history load that succeeds
\* with an empty draft in memory.
C40_DraftCachedOnceSynced ==
  [][(store.writeOk /\ store'.writeOk)
       => /\ (DraftIsCached /\ last'.op # "reload") => DraftIsCached'
          /\ last'.op = "setChatDraft" => DraftIsCached'
          /\ (last'.op = "history-response" /\ last'.ret = "ok" /\ chatMessage = "")
               => DraftIsCached']_vars

\* a send failed and the draft it had taken is in the composer again, and in
\* the cache
C40_FailedSendRestoresCachedDraft ==
  /\ last.op = "send-response"
  /\ last.ret = "reject"
  /\ chatMessage = "hi"
  /\ CachedDraft = "hi"
  /\ NothingSuspended

====
